---- MODULE Spec2Model ----
(***************************************************************************)
(* A model of the embedding / ranking core of kys-rag:                      *)
(*   - VectorService (src/app/services/vector_service.py): text            *)
(*     preprocessing, chunking, embedding generation with its metrics      *)
(*     dictionary, and cosine similarity;                                  *)
(*   - BaseService.search_similar and SearchService.search_all             *)
(*     (src/app/services/base.py, src/app/services/search.py);             *)
(*   - DatabaseManager.vector_similarity_search (src/app/database.py).     *)
(*                                                                         *)
(* Texts are sequences of characters (one-character strings).  Real        *)
(* numbers are exact rationals [num, den]; a float NaN is the rational     *)
(* with den = 0.  Vectors are sequences of integers.                       *)
(***************************************************************************)
EXTENDS Integers, Sequences, FiniteSets, TLC

VARIABLES
    call,                   \* arguments of the invocation under examination
    ret,                    \* sequence of the values returned so far
    metrics,                \* VectorService.metrics (dict, insertion order)
    attempts,               \* log of the generate_embedding attempts made
    studies,                \* the scientific-studies collection
    articles,               \* the articles collection
    vector_search_enabled   \* DatabaseManager.vector_search_enabled

vars == <<call, ret, metrics, attempts, studies, articles, vector_search_enabled>>

embedVars == <<metrics, attempts>>
dbVars == <<studies, articles, vector_search_enabled>>

(***************************************************************************)
(* Bounds of the model.                                                    *)
(***************************************************************************)
MaxTextLen == 4         \* characters of a text given to _preprocess_text
MaxWords == 22          \* tokens of a text given to _chunk_text
MaxChunkSize == 21      \* chunk_size given to _chunk_text

Min(a, b) == IF a < b THEN a ELSE b
Max(a, b) == IF a > b THEN a ELSE b

(***************************************************************************)
(* Characters.  Python's str.split() splits on whitespace; str.isprintable *)
(* is true of letters and of the space, false of newline, tab and NUL.     *)
(***************************************************************************)
SP == " "
LF == "\n"
TAB == "\t"
NUL == "\\x00"

Letters == <<"a", "b", "c", "d", "e">>

IsSpace(c) == c \in {SP, LF, TAB}
IsPrintable(c) == c \notin {LF, TAB, NUL}

\* str.split(): the maximal runs of non-whitespace characters, in order.
RECURSIVE WordStarts(_, _, _)
WordStarts(t, lo, hi) ==
    IF lo > hi THEN <<>>
    ELSE IF lo = hi
         THEN IF ~IsSpace(t[lo]) /\ (lo = 1 \/ IsSpace(t[lo - 1]))
              THEN <<lo>> ELSE <<>>
         ELSE LET mid == (lo + hi) \div 2
              IN  WordStarts(t, lo, mid) \o WordStarts(t, mid + 1, hi)

RECURSIVE WordEnd(_, _)
WordEnd(t, i) ==
    IF i = Len(t) \/ IsSpace(t[i + 1]) THEN i ELSE WordEnd(t, i + 1)

split(t) ==
    LET s == WordStarts(t, 1, Len(t))
    IN  [k \in 1..Len(s) |-> SubSeq(t, s[k], WordEnd(t, s[k]))]

\* sep.join(ws[lo..hi])
RECURSIVE JoinWith(_, _, _, _)
JoinWith(ws, sep, lo, hi) ==
    IF lo > hi THEN <<>>
    ELSE IF lo = hi THEN ws[lo]
    ELSE LET mid == (lo + hi) \div 2
         IN  JoinWith(ws, sep, lo, mid) \o sep \o JoinWith(ws, sep, mid + 1, hi)

join(ws) == JoinWith(ws, <<SP>>, 1, Len(ws))

\* str.replace for one-character patterns
replace(t, old, new) == [i \in 1..Len(t) |-> IF t[i] = old THEN new ELSE t[i]]

(***************************************************************************)
(* VectorService._preprocess_text                                          *)
(***************************************************************************)
preprocess_text(text) ==
    LET t1 == join(split(text))
        t2 == replace(replace(t1, LF, SP), TAB, SP)
    IN  SelectSeq(t2, IsPrintable)

(***************************************************************************)
(* VectorService._chunk_text                                               *)
(***************************************************************************)
MaxOverlap == 50

Overlap(chunk_size) == Min(MaxOverlap, chunk_size \div 10)

StepNoOverlap(chunk_size) == chunk_size

Step(chunk_size) == chunk_size - Overlap(chunk_size)

\* len(range(0, n, step))
RangeLen(n, step) == (n + step - 1) \div step

chunk_text(text, chunk_size) ==
    LET words == split(text)
        step == Step(chunk_size)
    IN  [k \in 1..RangeLen(Len(words), step) |->
            join(SubSeq(words, (k - 1) * step + 1,
                        Min((k - 1) * step + chunk_size, Len(words))))]

(***************************************************************************)
(* Inputs of the text functions.                                           *)
(***************************************************************************)
Alphabet == {"a", "b", SP, LF, TAB, NUL}

SeqsUpTo(S, n) == UNION {[1..k -> S] : k \in 0..n}

\* the i-th token of a generated text: two letters, 25 distinct tokens
Word(i) == <<Letters[((i \div 5) % 5) + 1], Letters[(i % 5) + 1]>>

Separators == {<<SP>>, <<SP, LF>>}

GenText(n, sep) == JoinWith([i \in 1..n |-> Word(i)], sep, 1, n)

PreprocessCalls == {[op |-> "preprocess_text", text |-> t] : t \in SeqsUpTo(Alphabet, MaxTextLen)}

ChunkCalls ==
    {[op |-> "chunk_text", text |-> GenText(n, sep), chunk_size |-> cs] :
        n \in 0..MaxWords, sep \in Separators, cs \in 1..MaxChunkSize}

EmbedIdle == metrics = <<>> /\ attempts = <<>>
DbIdle == studies = <<>> /\ articles = <<>> /\ vector_search_enabled = FALSE

InitText ==
    /\ call \in PreprocessCalls \cup ChunkCalls
    /\ ret = <<>>
    /\ EmbedIdle
    /\ DbIdle

\* _preprocess_text applied to the text, and then to its own output
PreprocessText ==
    /\ call.op = "preprocess_text"
    /\ Len(ret) < 2
    /\ ret' = Append(ret, preprocess_text(IF ret = <<>> THEN call.text ELSE ret[Len(ret)]))
    /\ UNCHANGED <<call, embedVars, dbVars>>

ChunkText ==
    /\ call.op = "chunk_text"
    /\ ret = <<>>
    /\ ret' = <<chunk_text(call.text, call.chunk_size)>>
    /\ UNCHANGED <<call, embedVars, dbVars>>

NextText == PreprocessText \/ ChunkText

SpecText == InitText /\ [][NextText]_vars

(***************************************************************************)
(* Claims about the text functions.                                        *)
(***************************************************************************)

\* C1: _preprocess_text is idempotent: preprocessing its own output changes
\* nothing.
C1_PreprocessIdempotent ==
    (call.op = "preprocess_text" /\ Len(ret) = 2) => ret[2] = ret[1]

\* the tokens of a chunk
Tokens(chunk) == split(chunk)

Drop(s, k) == SubSeq(s, k + 1, Len(s))

RECURSIVE Reassemble(_, _, _)
Reassemble(chunks, overlap, i) ==
    IF i > Len(chunks) THEN <<>>
    ELSE (IF i = 1 THEN Tokens(chunks[i]) ELSE Drop(Tokens(chunks[i]), overlap))
         \o Reassemble(chunks, overlap, i + 1)

\* C2: the chunks, concatenated after dropping the first `overlap` tokens of
\* every chunk but the first, are exactly the token sequence of the text.
C2_ChunksReconstruct ==
    (call.op = "chunk_text" /\ ret # <<>>) =>
        Reassemble(ret[1], Overlap(call.chunk_size), 1) = split(call.text)

\* C2 witness: several chunks, the last one shorter than the overlap
C2_Witness ==
    /\ call.op = "chunk_text" /\ ret # <<>>
    /\ Len(ret[1]) >= 2
    /\ Overlap(call.chunk_size) >= 2
    /\ Len(Tokens(ret[1][Len(ret[1])])) < Overlap(call.chunk_size)

\* C3: chunk i starts at token i*(chunk_size - overlap); every chunk but the
\* last has exactly chunk_size tokens, none has more; consecutive chunks
\* share exactly `overlap` tokens.
C3_ChunkShape ==
    (call.op = "chunk_text" /\ ret # <<>>) =>
        LET chunks == ret[1]
            words == split(call.text)
            cs == call.chunk_size
            ov == Overlap(cs)
            toks(i) == Tokens(chunks[i])
        IN  \A i \in 1..Len(chunks) :
              /\ toks(i) = SubSeq(words, (i - 1) * (cs - ov) + 1,
                                  (i - 1) * (cs - ov) + Len(toks(i)))
              /\ Len(toks(i)) <= cs
              /\ i < Len(chunks) => Len(toks(i)) = cs
              /\ i < Len(chunks) =>
                    /\ Len(toks(i + 1)) >= ov
                    /\ SubSeq(toks(i), cs - ov + 1, Len(toks(i))) = SubSeq(toks(i + 1), 1, ov)

(***************************************************************************)
(* Numbers.  A float is an exact rational num/den with den > 0, or NaN     *)
(* (den = 0, the result of 0.0/0.0).  Every comparison with NaN is false.  *)
(***************************************************************************)
MaxDim == 2             \* longest vector given to calculate_similarity
MaxComp == 5            \* largest absolute component of such a vector

Rat(n, d) == [num |-> n, den |-> d]
Zero == Rat(0, 1)
One == Rat(1, 1)
IsNaN(x) == x.den = 0
RatLt(x, y) == ~IsNaN(x) /\ ~IsNaN(y) /\ x.num * y.den < y.num * x.den
RatLe(x, y) == ~IsNaN(x) /\ ~IsNaN(y) /\ x.num * y.den <= y.num * x.den
RatEq(x, y) == ~IsNaN(x) /\ ~IsNaN(y) /\ x.num * y.den = y.num * x.den

\* Python's min(a, b) and max(a, b): b replaces a only when b < a (b > a)
PyMin(a, b) == IF RatLt(b, a) THEN b ELSE a
PyMax(a, b) == IF RatLt(a, b) THEN b ELSE a

RECURSIVE SumTo(_, _)
SumTo(f, n) == IF n = 0 THEN 0 ELSE f[n] + SumTo(f, n - 1)

\* np.dot of two vectors of one length
Dot(u, v) == SumTo([i \in 1..Len(u) |-> u[i] * v[i]], Len(u))

SumSq(v) == Dot(v, v)
IsSquare(n) == \E r \in 0..n : r * r = n
ISqrt(n) == CHOOSE r \in 0..n : r * r = n

\* np.linalg.norm, exact on the vectors of the model (integer norms)
Norm(v) == ISqrt(SumSq(v))

(***************************************************************************)
(* VectorService.calculate_similarity                                      *)
(***************************************************************************)
calculate_similarity_unclamped(embedding1, embedding2) ==
    IF Len(embedding1) # Len(embedding2)
    THEN Zero
    ELSE Rat(Dot(embedding1, embedding2), Norm(embedding1) * Norm(embedding2))

calculate_similarity_one_norm(embedding1, embedding2) ==
    IF Len(embedding1) # Len(embedding2)
    THEN Zero
    ELSE PyMax(Zero, PyMin(One,
            Rat(Dot(embedding1, embedding2), Norm(embedding1) * Norm(embedding1))))

calculate_similarity(embedding1, embedding2) ==
    IF Len(embedding1) # Len(embedding2)
    THEN Zero       \* np.dot raises ValueError; the handler returns 0.0
    ELSE LET similarity == Rat(Dot(embedding1, embedding2),
                               Norm(embedding1) * Norm(embedding2))
         IN  PyMax(Zero, PyMin(One, similarity))

SimVectors ==
    {v \in UNION {[1..d -> (-MaxComp)..MaxComp] : d \in 1..MaxDim} : IsSquare(SumSq(v))}

SimilarityCalls ==
    {[op |-> "calculate_similarity", embedding1 |-> a, embedding2 |-> b] :
        a \in SimVectors, b \in SimVectors}

InitSimilarity ==
    /\ call \in SimilarityCalls
    /\ ret = <<>>
    /\ EmbedIdle
    /\ DbIdle

\* calculate_similarity(embedding1, embedding2)
CalculateSimilarity ==
    /\ call.op = "calculate_similarity"
    /\ ret = <<>>
    /\ ret' = <<calculate_similarity(call.embedding1, call.embedding2)>>
    /\ UNCHANGED <<call, embedVars, dbVars>>

\* then calculate_similarity(embedding2, embedding1)
CalculateSimilaritySwapped ==
    /\ call.op = "calculate_similarity"
    /\ Len(ret) = 1
    /\ ret' = Append(ret, calculate_similarity(call.embedding2, call.embedding1))
    /\ UNCHANGED <<call, embedVars, dbVars>>

NextSimilarity == CalculateSimilarity \/ CalculateSimilaritySwapped

SpecSimilarity == InitSimilarity /\ [][NextSimilarity]_vars

IsZeroVec(v) == \A i \in 1..Len(v) : v[i] = 0

\* the cosine of a and b is defined: same length, neither is the zero vector
CosineDefined(a, b) == Len(a) = Len(b) /\ ~IsZeroVec(a) /\ ~IsZeroVec(b)

\* C7: the result is within [0,1]; where the cosine is defined it is the
\* cosine clamped to [0,1]: 1 for similarity(a, a), 0 for orthogonal vectors,
\* 0 for a negative cosine, the cosine itself otherwise.
C7_SimilarityClamped ==
    (call.op = "calculate_similarity" /\ ret # <<>>) =>
        LET a == call.embedding1
            b == call.embedding2
            r == ret[1]
        IN  /\ RatLe(Zero, r) /\ RatLe(r, One)
            /\ CosineDefined(a, b) =>
                 /\ a = b => RatEq(r, One)
                 /\ Dot(a, b) = 0 => RatEq(r, Zero)
                 /\ Dot(a, b) < 0 => RatEq(r, Zero)
                 /\ Dot(a, b) > 0 =>
                        r.num * r.num * SumSq(a) * SumSq(b) = Dot(a, b) * Dot(a, b) * r.den * r.den

\* C7 witness: a pair with negative cosine has been scored 0
C7_Witness ==
    /\ call.op = "calculate_similarity" /\ ret # <<>>
    /\ CosineDefined(call.embedding1, call.embedding2)
    /\ Dot(call.embedding1, call.embedding2) < 0
    /\ RatEq(ret[1], Zero)

\* C8: similarity(a, b) = similarity(b, a), zero vectors and vectors of
\* different lengths included.
C8_SimilaritySymmetric ==
    (call.op = "calculate_similarity" /\ Len(ret) = 2) => RatEq(ret[1], ret[2])

\* C8 witness: both orders evaluated on two different vectors, one of them zero
C8_Witness ==
    /\ call.op = "calculate_similarity" /\ Len(ret) = 2
    /\ call.embedding1 # call.embedding2
    /\ IsZeroVec(call.embedding1)
    /\ Len(call.embedding2) = Len(call.embedding1)
    /\ ~IsZeroVec(call.embedding2)

(***************************************************************************)
(* VectorService.generate_embedding and its metrics.                       *)
(*                                                                         *)
(* The pretrained encoder is outside the program: a call of                *)
(* _generate_chunk_embedding either raises or yields the encoder's raw     *)
(* output, any vector of RawOutputs, which it then normalizes.  A vector   *)
(* of floats is [num, den]: the integer vector num divided by den.         *)
(*                                                                         *)
(* generate_embedding awaits only coroutines that never suspend, so one    *)
(* call runs to its end before the event loop runs another: one action.    *)
(***************************************************************************)
MaxAttempts == 2        \* generate_embedding calls in one run
MaxElapsed == 1         \* largest processing_time, in clock ticks

DefaultChunkSize == 512
TextIdLen == 50

RawOutputs == {<<5, 0>>, <<0, 5>>, <<3, 4>>}

EncoderOutcomes ==
    {[ok |-> TRUE, raw |-> r] : r \in RawOutputs} \cup {[ok |-> FALSE, raw |-> <<>>]}

\* torch.nn.functional.normalize: v / max(||v||, eps)
normalize(raw) == [num |-> raw, den |-> IF Norm(raw) = 0 THEN 1 ELSE Norm(raw)]

\* _generate_chunk_embedding on a chunk for which the encoder yields `raw`
generate_chunk_embedding(raw) == normalize(raw)

VecAdd(u, v) ==
    [num |-> [i \in 1..Len(u.num) |-> u.num[i] * v.den + v.num[i] * u.den],
     den |-> u.den * v.den]

RECURSIVE VecSum(_, _)
VecSum(embeddings, n) ==
    IF n = 1 THEN embeddings[1] ELSE VecAdd(VecSum(embeddings, n - 1), embeddings[n])

\* _combine_embeddings on a non-empty list: torch.mean(torch.stack(...), dim=0)
combine_embeddings(embeddings) ==
    LET total == VecSum(embeddings, Len(embeddings))
    IN  [num |-> total.num, den |-> total.den * Len(embeddings)]

\* the squared L2 norm of a vector is 1
IsUnit(v) == SumSq(v.num) = v.den * v.den

ProcessingMetrics(chunk_count, processing_time, input_length, success, error_message) ==
    [chunk_count |-> chunk_count, processing_time |-> processing_time,
     input_length |-> input_length, success |-> success,
     error_message |-> error_message]

\* d[key] = value on a dict kept as the sequence of its items
DictSet(d, key, value) ==
    IF \E i \in 1..Len(d) : d[i].key = key
    THEN [i \in 1..Len(d) |-> IF d[i].key = key THEN [key |-> key, value |-> value] ELSE d[i]]
    ELSE Append(d, [key |-> key, value |-> value])

DictHas(d, key) == \E i \in 1..Len(d) : d[i].key = key
DictGet(d, key) == d[CHOOSE i \in 1..Len(d) : d[i].key = key].value

\* text[:50]
TextId(text) == SubSeq(text, 1, Min(TextIdLen, Len(text)))

RetVector(v) == [kind |-> "vector", value |-> v]
RetNone == [kind |-> "None", value |-> [num |-> <<>>, den |-> 1]]
RetRaise == [kind |-> "raise", value |-> [num |-> <<>>, den |-> 1]]

StackEmptyMessage == "stack expects a non-empty TensorList"
EncoderMessage == "encoder error"

Repeat(c, n) == [i \in 1..n |-> c]

SharedPrefix == Repeat("a", TextIdLen)

\* the strings given to generate_embedding
EmbedTexts ==
    { <<>>,                                         \* ""
      <<SP, LF, SP>>,                               \* whitespace only
      <<"a", "b", SP, "c">>,                        \* a short text
      SharedPrefix \o <<SP, "b">>,                  \* two texts with the same
      SharedPrefix \o <<SP, "c">>,                  \*   first 50 characters
      GenText(Step(DefaultChunkSize) + 1, <<SP>>) } \* a text of two chunks

\* _preprocess_text(text) and _chunk_text(text) (chunk_size at its default)
\* as generate_embedding computes them, tabulated over the inputs
PreprocessedText == [t \in EmbedTexts |-> preprocess_text(t)]
TextChunks == [t \in EmbedTexts |-> chunk_text(PreprocessedText[t], DefaultChunkSize)]

\* The outcome [ret, metrics] of generate_embedding(text) on a string, when
\* the encoder's outcome on chunk k is outs[k] and the clock advances by dt.
generate_embedding(text, outs, dt, m) ==
    LET text_id == TextId(text)
        cleaned == PreprocessedText[text]
        chunks == TextChunks[text]
        failure(msg) ==
            [ret |-> RetNone,
             metrics |-> DictSet(m, text_id,
                            ProcessingMetrics(0, 0, Len(cleaned), FALSE, msg))]
    IN  IF \E k \in 1..Len(chunks) : ~outs[k].ok
        THEN failure(EncoderMessage)
        ELSE IF chunks = <<>>
        THEN failure(StackEmptyMessage)
        ELSE LET embeddings == [k \in 1..Len(chunks) |-> generate_chunk_embedding(outs[k].raw)]
                 final_embedding == combine_embeddings(embeddings)
             IN  [ret |-> RetVector(final_embedding),
                  metrics |-> DictSet(m, text_id,
                                 ProcessingMetrics(Len(chunks), dt, Len(cleaned), TRUE, ""))]

StrInput(t) == [kind |-> "str", text |-> t]
NoneInput == [kind |-> "none", text |-> <<>>]

EmbedInputs == {StrInput(t) : t \in EmbedTexts} \cup {NoneInput}

Init ==
    /\ call = [op |-> "none"]
    /\ ret = <<>>
    /\ metrics = <<>>
    /\ attempts = <<>>
    /\ DbIdle

\* generate_embedding(text) on a string
GenerateEmbedding(inp) ==
    /\ inp.kind = "str"
    /\ Len(attempts) < MaxAttempts
    /\ \E outs \in [1..Len(TextChunks[inp.text]) -> EncoderOutcomes], dt \in 1..MaxElapsed :
          LET r == generate_embedding(inp.text, outs, dt, metrics)
          IN  /\ ret' = <<r.ret>>
              /\ metrics' = r.metrics
    /\ call' = [op |-> "generate_embedding", input |-> inp]
    /\ attempts' = Append(attempts, inp)
    /\ UNCHANGED dbVars

\* generate_embedding(None): text[:50] raises TypeError before the try block
GenerateEmbeddingNone(inp) ==
    /\ inp.kind = "none"
    /\ Len(attempts) < MaxAttempts
    /\ ret' = <<RetRaise>>
    /\ call' = [op |-> "generate_embedding", input |-> inp]
    /\ attempts' = Append(attempts, inp)
    /\ UNCHANGED <<metrics, dbVars>>

\* get_processing_metrics()
GetProcessingMetrics ==
    /\ call.op = "generate_embedding"
    /\ ret' = <<[kind |-> "metrics", value |-> metrics]>>
    /\ call' = [op |-> "get_processing_metrics"]
    /\ UNCHANGED <<metrics, attempts, dbVars>>

Next ==
    \/ \E inp \in EmbedInputs : GenerateEmbedding(inp)
    \/ \E inp \in EmbedInputs : GenerateEmbeddingNone(inp)
    \/ GetProcessingMetrics

Spec == Init /\ [][Next]_vars

\* C4: the vector generate_embedding returns is unit-normalized (normalize is
\* the last stage), for one chunk or many.
C4_EmbeddingUnitNorm ==
    (call.op = "generate_embedding" /\ ret[1].kind = "vector") => IsUnit(ret[1].value)

\* C5: an input that cannot be embedded makes generate_embedding return None
\* without raising, and leaves a metrics entry for it with success = false
\* and a non-empty error_message.
C5_FailureRecorded ==
    call.op = "generate_embedding" =>
        /\ ret[1].kind # "raise"
        /\ ret[1].kind = "None" =>
              /\ DictHas(metrics, TextId(call.input.text))
              /\ ~DictGet(metrics, TextId(call.input.text)).success
              /\ DictGet(metrics, TextId(call.input.text)).error_message # ""

\* the attempts so far were all made on strings, pairwise distinct
DistinctTexts ==
    /\ \A i \in 1..Len(attempts) : attempts[i].kind = "str"
    /\ \A i, j \in 1..Len(attempts) : i # j => attempts[i].text # attempts[j].text

\* C6: every attempt has an entry of its own that no later attempt replaces:
\* after attempts on n pairwise-distinct texts get_processing_metrics returns
\* exactly n entries.
C6_OneEntryPerAttempt ==
    (call.op = "get_processing_metrics" /\ DistinctTexts) =>
        Len(ret[1].value) = Len(attempts)

(***************************************************************************)
(* Ranking: BaseService.search_similar and SearchService.search_all.       *)
(*                                                                         *)
(* A collection is the sequence of its documents in insertion order; a     *)
(* document is [id, vector, discipline], its vector None when the document *)
(* has no such field.  The order MongoDB's $sort gives to documents of     *)
(* equal similarity is not specified: any is possible.                     *)
(***************************************************************************)
\* an Optional value, or a field a stored document may lack: None or
\* Some(value)
None == [some |-> FALSE]
Some(v) == [some |-> TRUE, val |-> v]

MaxStudies == 2         \* documents in the scientific-studies collection
MaxArticles == 1        \* documents in the articles collection
MaxLimit == 2           \* largest `limit` of a ranking call

\* vectors found in stored documents: a unit vector, a vector of norm 2, a
\* unit vector pointing the other way, and a vector of another dimension
\* (insert_one accepts any array as `vector`)
StoredVectors ==
    { [num |-> <<3, 4>>, den |-> 5],
      [num |-> <<10, 0>>, den |-> 5],
      [num |-> <<-5, 0>>, den |-> 5],
      [num |-> <<5>>, den |-> 5] }

\* raw encoder outputs for the query texts
QueryOutputs == {<<5, 0>>, <<3, 4>>}

MinScores == {Rat(0, 1), Rat(1, 2), Rat(1, 1)}

Disciplines == {"biology", "physics"}

\* BaseService.generate_embedding: embedding / torch.norm(embedding)
base_generate_embedding(raw) == [num |-> raw, den |-> Norm(raw)]

\* $reduce over $zip of the two arrays: $zip stops at the shorter one
ZipDot(u, v) ==
    LET n == Min(Len(u.num), Len(v.num))
    IN  Rat(SumTo([i \in 1..n |-> u.num[i] * v.num[i]], n), u.den * v.den)

MongoMax(a, b) == IF RatLt(a, b) THEN b ELSE a
MongoMin(a, b) == IF RatLt(b, a) THEN b ELSE a

\* the $addFields expression: $min [1.0, $max [0.0, dotProduct]]; for a
\* document without vector $zip and $reduce give null, which $max leaves out
Similarity(vector, query_vector) ==
    IF vector = None THEN MongoMin(One, Zero)
    ELSE MongoMin(One, MongoMax(Zero, ZipDot(vector, query_vector)))

AddFields(docs, query_vector) ==
    [i \in 1..Len(docs) |->
        [id |-> docs[i].id, similarity |-> Similarity(docs[i].vector, query_vector)]]

\* {"$match": {"similarity": {"$gte": min_score}}}
Match(docs, min_score) ==
    LET AtLeast(d) == RatLe(min_score, d.similarity)
    IN  SelectSeq(docs, AtLeast)

\* {"$sort": {"similarity": -1}}: every order that is non-increasing
SortOrders(docs) ==
    LET n == Len(docs)
        ok(p) == \A i \in 1..(n - 1) : RatLe(docs[p[i + 1]].similarity, docs[p[i]].similarity)
    IN  {[i \in 1..n |-> docs[p[i]]] : p \in {q \in Permutations(1..n) : ok(q)}}

\* {"$limit": limit}, and results[:limit]
Limit(docs, limit) == SubSeq(docs, 1, Min(limit, Len(docs)))

\* a pipeline that limits before it sorts
search_similar_limit_first(docs, query_vector, limit, min_score) ==
    SortOrders(Limit(Match(AddFields(docs, query_vector), min_score), limit))

\* the lists search_similar can return on a collection
search_similar(docs, query_vector, limit, min_score) ==
    {Limit(sorted, limit) :
        sorted \in SortOrders(Match(AddFields(docs, query_vector), min_score))}

\* search_similar_studies / search_similar_articles: the SearchResponse list
ToResponses(results, content_type) ==
    [i \in 1..Len(results) |->
        [content |-> results[i].id, score |-> results[i].similarity,
         content_type |-> content_type]]

\* list.sort(key=score, reverse=True): stable
PySortDesc(rs) ==
    LET n == Len(rs)
        Before(i, j) ==
            \/ RatLt(rs[j].score, rs[i].score)
            \/ RatEq(rs[i].score, rs[j].score) /\ i < j
    IN  [k \in 1..n |->
            rs[CHOOSE i \in 1..n : Cardinality({j \in 1..n : Before(j, i)}) = k - 1]]

\* a search_all that searches both collections whatever the content_type
search_all_collections_both(content_type) == <<"scientific_study", "article">>

\* search_all: the collections it searches, in the order of its awaits
search_all_collections(content_type) ==
    IF content_type = "scientific_study" THEN <<"scientific_study">>
    ELSE IF content_type = "article" THEN <<"article">>
    ELSE <<"scientific_study", "article">>

\* search_all, once the searches have answered: results.sort(...), then
\* results[:query.limit]
search_all_finish(results, limit) == Limit(PySortDesc(results), limit)

ContentTypes == {"scientific_study", "article", "any"}

NoCall == [op |-> "none"]

InitRank ==
    /\ call = NoCall
    /\ ret = <<>>
    /\ EmbedIdle
    /\ DbIdle

NewDoc(coll, vector, discipline) ==
    [id |-> Len(coll) + 1, vector |-> vector, discipline |-> discipline]

\* BaseService.create of a study that comes with its vector
CreateStudy(vector, discipline) ==
    /\ call.op \in {"none", "search_all_pending"}
    /\ Len(studies) < MaxStudies
    /\ studies' = Append(studies, NewDoc(studies, vector, discipline))
    /\ UNCHANGED <<call, ret, embedVars, articles, vector_search_enabled>>

\* create_article of the articles router: article.model_dump() is inserted;
\* ArticleCreate has a text and neither vector nor discipline
create_article(coll) == Append(coll, NewDoc(coll, None, "none"))

\* POST /articles, the one path that stores an article: article_service
\* .create raises at insert_one, which cannot encode the HttpUrl of an Article
CreateArticle ==
    /\ call.op \in {"none", "search_all_pending"}
    /\ Len(articles) < MaxArticles
    /\ articles' = create_article(articles)
    /\ UNCHANGED <<call, ret, embedVars, studies, vector_search_enabled>>

CollectionOf(content_type) ==
    IF content_type = "scientific_study" THEN studies ELSE articles

\* search_similar on the collection of one service, its documents handed
\* back as SearchResponses (search_similar_studies, search_similar_articles)
SearchCollection(content_type, query_vector, limit, min_score) ==
    {ToResponses(r, content_type) :
        r \in search_similar(CollectionOf(content_type), query_vector, limit, min_score)}

\* the documents a call has read from a collection so far
ReadSoFar(content_type, searched, read) ==
    IF searched = content_type THEN CollectionOf(content_type) ELSE read

SearchSimilar(content_type, raw, limit, min_score) ==
    /\ call = NoCall
    /\ LET query_vector == base_generate_embedding(raw)
       IN  /\ \E results \in SearchCollection(content_type, query_vector,
                                              limit, min_score) :
                  ret' = <<results>>
           /\ call' = [op |-> "search_similar", content_type |-> content_type,
                       query_vector |-> query_vector, limit |-> limit,
                       min_score |-> min_score,
                       studies_read |-> ReadSoFar("scientific_study", content_type, <<>>),
                       articles_read |-> ReadSoFar("article", content_type, <<>>)]
    /\ UNCHANGED <<embedVars, dbVars>>

\* one await of search_all: the server answers the search of the next
\* collection from the documents it holds now; after the last one the
\* results are sorted and cut, before it the coroutine stays suspended
SearchAllStep(op, content_type, query_vector, limit, min_score, pending, results, studies_read, articles_read) ==
    \E rs \in SearchCollection(pending[1], query_vector, limit, min_score) :
        LET sr == ReadSoFar("scientific_study", pending[1], studies_read)
            ar == ReadSoFar("article", pending[1], articles_read)
        IN  IF Len(pending) = 1
            THEN /\ ret' = <<search_all_finish(results \o rs, limit)>>
                 /\ call' = [op |-> op, content_type |-> content_type,
                             query_vector |-> query_vector, limit |-> limit,
                             min_score |-> min_score, ranked |-> TRUE,
                             studies_read |-> sr, articles_read |-> ar]
            ELSE /\ ret' = <<>>
                 /\ call' = [op |-> "search_all_pending", final_op |-> op,
                             content_type |-> content_type,
                             query_vector |-> query_vector, limit |-> limit,
                             min_score |-> min_score,
                             pending |-> Tail(pending), results |-> results \o rs,
                             studies_read |-> sr, articles_read |-> ar]

\* search_all(query), up to the answer of its first search
SearchAll(content_type, raw, limit, min_score) ==
    /\ call = NoCall
    /\ SearchAllStep("search_all", content_type, base_generate_embedding(raw),
                     limit, min_score, search_all_collections(content_type),
                     <<>>, <<>>, <<>>)
    /\ UNCHANGED <<embedVars, dbVars>>

\* search_all, from the answer of one search to the answer of the next
SearchAllNext ==
    /\ call.op = "search_all_pending"
    /\ SearchAllStep(call.final_op, call.content_type, call.query_vector,
                     call.limit, call.min_score, call.pending, call.results,
                     call.studies_read, call.articles_read)
    /\ UNCHANGED <<embedVars, dbVars>>

\* the encoder fails on the query text: the search raises
SearchRaises ==
    /\ call = NoCall
    /\ call' = [op |-> "search_raised"]
    /\ UNCHANGED <<ret, embedVars, dbVars>>

\* the caller has its answer; the next request may come
Return ==
    /\ call.op \notin {"none", "search_all_pending", "vector_similarity_search_pending"}
    /\ call' = NoCall
    /\ ret' = <<>>
    /\ UNCHANGED <<embedVars, dbVars>>

NextRank ==
    \/ \E v \in StoredVectors : CreateStudy(v, "biology")
    \/ CreateArticle
    \/ \E ct \in {"scientific_study", "article"}, raw \in QueryOutputs,
          limit \in 1..MaxLimit, ms \in MinScores : SearchSimilar(ct, raw, limit, ms)
    \/ \E ct \in ContentTypes, raw \in QueryOutputs,
          limit \in 1..MaxLimit, ms \in MinScores : SearchAll(ct, raw, limit, ms)
    \/ SearchAllNext
    \/ SearchRaises
    \/ Return

SpecRank == InitRank /\ [][NextRank]_vars

\* the documents a ranking call has to choose from, with their scores: the
\* documents its searches read
Candidates(content_type, query_vector) ==
    {[content |-> call.studies_read[i].id, content_type |-> "scientific_study",
      score |-> Similarity(call.studies_read[i].vector, query_vector)] :
        i \in IF content_type = "article" THEN {} ELSE 1..Len(call.studies_read)}
    \cup
    {[content |-> call.articles_read[i].id, content_type |-> "article",
      score |-> Similarity(call.articles_read[i].vector, query_vector)] :
        i \in IF content_type = "scientific_study" THEN {} ELSE 1..Len(call.articles_read)}

Passing(content_type, query_vector, min_score) ==
    {c \in Candidates(content_type, query_vector) : RatLe(min_score, c.score)}

SameDoc(a, b) == a.content = b.content /\ a.content_type = b.content_type

\* C9: the list a ranking call returns is sorted non-increasing by score,
\* has at most `limit` elements, each with score >= min_score, and holds the
\* `limit` highest-scoring candidates that pass the threshold.
C9_RankedTopLimit ==
    call.op \in {"search_similar", "search_all"} =>
        LET items == ret[1]
            n == Len(items)
            pass == Passing(call.content_type, call.query_vector, call.min_score)
            Listed(c) == \E i \in 1..n : SameDoc(items[i], c)
        IN  /\ n <= call.limit
            /\ \A i \in 1..(n - 1) : RatLe(items[i + 1].score, items[i].score)
            /\ \A i \in 1..n : RatLe(call.min_score, items[i].score)
            /\ \A i \in 1..n : \E c \in pass : SameDoc(items[i], c) /\ RatEq(items[i].score, c.score)
            /\ \A i, j \in 1..n : i # j => ~SameDoc(items[i], items[j])
            /\ n = Min(call.limit, Cardinality(pass))
            /\ \A c \in pass : ~Listed(c) => \A i \in 1..n : RatLe(c.score, items[i].score)

\* C9 witness: a search over both collections was cut to `limit`: studies
\* are listed, and a stored article that passes the threshold is dropped
\* because it scores strictly less than the last one listed
C9_Witness ==
    /\ call.op = "search_all" /\ call.content_type = "any"
    /\ Len(ret[1]) = call.limit
    /\ \E c \in Passing(call.content_type, call.query_vector, call.min_score) :
          /\ c.content_type = "article"
          /\ \A i \in 1..Len(ret[1]) : ~SameDoc(ret[1][i], c)
          /\ RatLt(c.score, ret[1][Len(ret[1])].score)

(***************************************************************************)
(* DatabaseManager.vector_similarity_search on db.studies, in its two      *)
(* modes.  The `vector_search_enabled` flag is set by _setup_vector_index  *)
(* according to what the server allows.                                    *)
(***************************************************************************)
MaxFixture == 3         \* documents put into db.studies for a search

NoFilters == [discipline |-> "none"]

MetadataFilters == {NoFilters} \cup {[discipline |-> d] : d \in Disciplines}

\* a stage of an aggregation pipeline: its operator, and for a $project the
\* fields it excludes and the fields it computes
Stage(op, exclude, computed) == [op |-> op, exclude |-> exclude, computed |-> computed]

\* the pipeline vector_similarity_search builds; knn and score_meta are the
\* values of self.vector_search_enabled read for the first stage and for
\* the "$cond if" of the closing $project
Pipeline(knn, score_meta, metadata_filters) ==
    (IF knn THEN <<Stage("$search", {}, {})>>
     ELSE <<Stage("$project", {}, {"similarity"}), Stage("$sort", {}, {})>>)
    \o (IF metadata_filters # NoFilters THEN <<Stage("$match", {}, {})>> ELSE <<>>)
    \o <<Stage("$limit", {}, {}), Stage("$project", {"vector"}, {"score"})>>

\* the server takes no $project that excludes a field and computes another:
\* it rejects the pipeline before it reads a document
ValidStage(s) == s.op = "$project" => (s.exclude = {} \/ s.computed = {})

\* the body of the fallback's $function: it calls Array.zip, which
\* JavaScript does not define, and throws on every pair of arrays
JsCosine(a, b) == "TypeError"

\* the cosine of two vectors
Cosine(a, b) == Rat(Dot(a.num, b.num), Norm(a.num) * Norm(b.num))

\* $meta searchScore of a cosine index: (1 + cosine) / 2
SearchScore(a, b) ==
    LET c == Cosine(a, b) IN Rat(c.num + c.den, 2 * c.den)

ScoreNative(docs, query_vector) ==
    [i \in 1..Len(docs) |->
        [id |-> docs[i].id, discipline |-> docs[i].discipline,
         similarity |-> SearchScore(docs[i].vector, query_vector)]]

\* the fallback's first $project: each document with what $function gives
ScoreFallback(docs, query_vector) ==
    [i \in 1..Len(docs) |->
        [id |-> docs[i].id, discipline |-> docs[i].discipline,
         similarity |-> JsCosine(docs[i].vector, query_vector)]]

\* $search knnBeta: the k nearest documents, nearest first
KnnBeta(docs, query_vector, k) ==
    {Limit(sorted, k) : sorted \in SortOrders(ScoreNative(docs, query_vector))}

\* {"$match": metadata_filters}, appended only for a non-empty filter
MatchFilters(docs, metadata_filters) ==
    LET Matches(d) == d.discipline = metadata_filters.discipline
    IN  IF metadata_filters = NoFilters THEN docs ELSE SelectSeq(docs, Matches)

\* a closing $project that is valid: the other fields stay, the score comes
ProjectScore(docs) ==
    [i \in 1..Len(docs) |->
        [id |-> docs[i].id, discipline |-> docs[i].discipline,
         similarity |-> docs[i].similarity, score |-> docs[i].similarity]]

Failure == [raised |-> "OperationFailure", results |-> <<>>]

\* db.studies.aggregate(pipeline).to_list: what the server can answer
aggregate(docs, pipeline, query_vector, limit, metadata_filters) ==
    IF \E i \in 1..Len(pipeline) : ~ValidStage(pipeline[i])
    THEN {Failure}
    ELSE IF pipeline[1].op = "$search"
    THEN {[raised |-> "none",
           results |-> ProjectScore(Limit(MatchFilters(s, metadata_filters), limit))] :
                s \in KnnBeta(docs, query_vector, limit * 2)}
    ELSE IF \E i \in 1..Len(docs) :
                ScoreFallback(docs, query_vector)[i].similarity = "TypeError"
    THEN {Failure}
    ELSE {[raised |-> "none", results |-> <<>>]}

\* vector_similarity_search: what it raises, or the list it returns
vector_similarity_search(docs, enabled, query_vector, limit, metadata_filters) ==
    aggregate(docs, Pipeline(enabled, enabled, metadata_filters),
              query_vector, limit, metadata_filters)

InitVss ==
    /\ call = NoCall
    /\ ret = <<>>
    /\ EmbedIdle
    /\ DbIdle

\* db.studies.insert_one of a document that carries its vector
InsertStudy(vector, discipline) ==
    /\ call.op \in {"none", "vector_similarity_search_pending"}
    /\ Len(studies) < MaxFixture
    /\ studies' = Append(studies, NewDoc(studies, vector, discipline))
    /\ UNCHANGED <<call, ret, embedVars, articles, vector_search_enabled>>

\* _setup_vector_index: the index is created, or the tier disallows it and
\* the fallback index is set up
SetupVectorIndex(available) ==
    /\ call.op \in {"none", "vector_similarity_search_pending"}
    /\ vector_search_enabled' = available
    /\ UNCHANGED <<call, ret, embedVars, studies, articles>>

\* vector_similarity_search up to its await: the pipeline is built from the
\* flag as it is now
VectorSimilaritySearch(raw, limit, metadata_filters) ==
    /\ call = NoCall
    /\ call' = [op |-> "vector_similarity_search_pending",
                query_vector |-> base_generate_embedding(raw),
                limit |-> limit, metadata_filters |-> metadata_filters,
                enabled |-> vector_search_enabled, raised |-> "none"]
    /\ ret' = <<>>
    /\ UNCHANGED <<embedVars, dbVars>>

\* the server answers the aggregate on db.studies as it is now; what it
\* raises is raised again
VectorSimilarityAnswer ==
    /\ call.op = "vector_similarity_search_pending"
    /\ \E out \in vector_similarity_search(studies, call.enabled, call.query_vector,
                                           call.limit, call.metadata_filters) :
          /\ call' = [call EXCEPT !.op = "vector_similarity_search",
                                  !.raised = out.raised]
          /\ ret' = <<out.results>>
    /\ UNCHANGED <<embedVars, dbVars>>

NextVss ==
    \/ \E v \in StoredVectors, d \in Disciplines : InsertStudy(v, d)
    \/ \E available \in BOOLEAN : SetupVectorIndex(available)
    \/ \E raw \in QueryOutputs, limit \in 1..MaxLimit, f \in MetadataFilters :
          VectorSimilaritySearch(raw, limit, f)
    \/ VectorSimilarityAnswer
    \/ Return

SpecVss == InitVss /\ [][NextVss]_vars

Ids(results) == [i \in 1..Len(results) |-> results[i].id]

\* C10: on the same collection, query vector, limit and metadata filters,
\* vector_similarity_search returns a list of documents, and the identifiers
\* it returns, in order, are identifiers the other mode (flag flipped)
\* returns as well.
C10_ModesAgree ==
    call.op = "vector_similarity_search" =>
        /\ call.raised = "none"
        /\ \E other \in vector_similarity_search(studies, ~call.enabled,
                                                 call.query_vector, call.limit,
                                                 call.metadata_filters) :
              other.raised = "none" /\ Ids(other.results) = Ids(ret[1])

(***************************************************************************)
(* Stored vectors of the wrong dimension.                                  *)
(***************************************************************************)
DocOf(item) ==
    IF item.content_type = "scientific_study" THEN call.studies_read[item.content]
    ELSE call.articles_read[item.content]

\* C11: a stored document whose vector length differs from the query
\* vector's length never appears in the result of a ranking call (a document
\* stored without vector has no such length).
C11_WrongDimensionSkipped ==
    call.op \in {"search_similar", "search_all"} =>
        \A i \in 1..Len(ret[1]) :
            \/ DocOf(ret[1][i]).vector = None
            \/ Len(DocOf(ret[1][i]).vector.num) = Len(call.query_vector.num)

(***************************************************************************)
(* ClaimService (src/app/services/claim.py).                               *)
(*                                                                         *)
(* An Optional field is None or Some(value).  A Claim is a record of the   *)
(* fields of models.Claim the service reads or writes.                     *)
(***************************************************************************)
DOT == "."

UpperLetters == <<"A", "B", "C", "D", "E", "F", "G", "H", "I", "J", "K", "L", "M",
                  "N", "O", "P", "Q", "R", "S", "T", "U", "V", "W", "X", "Y", "Z">>
LowerLetters == <<"a", "b", "c", "d", "e", "f", "g", "h", "i", "j", "k", "l", "m",
                  "n", "o", "p", "q", "r", "s", "t", "u", "v", "w", "x", "y", "z">>

LowerChar(c) ==
    IF \E i \in 1..Len(UpperLetters) : UpperLetters[i] = c
    THEN LowerLetters[CHOOSE i \in 1..Len(UpperLetters) : UpperLetters[i] = c]
    ELSE c

\* str.lower
lower(s) == [i \in 1..Len(s) |-> LowerChar(s[i])]

\* str.split(sep) with a one-character separator: always at least one piece
split_on(t, sep) ==
    LET at == {i \in 1..Len(t) : t[i] = sep}
        n == Cardinality(at)
        SepAt(k) == IF k = 0 THEN 0
                    ELSE IF k = n + 1 THEN Len(t) + 1
                    ELSE CHOOSE i \in at : Cardinality({j \in at : j < i}) = k - 1
    IN  [k \in 1..(n + 1) |-> SubSeq(t, SepAt(k - 1) + 1, SepAt(k) - 1)]

\* `sub in s`
Contains(s, sub) ==
    \E i \in 0..(Len(s) - Len(sub)) : SubSeq(s, i + 1, i + Len(sub)) = sub

\* str.strip
strip(s) ==
    LET keep == {i \in 1..Len(s) : ~IsSpace(s[i])}
    IN  IF keep = {} THEN <<>>
        ELSE SubSeq(s, CHOOSE i \in keep : \A j \in keep : i <= j,
                       CHOOSE i \in keep : \A j \in keep : j <= i)

indicators ==
    << <<"s", "t", "u", "d", "y", " ", "s", "h", "o", "w", "s">>,
       <<"r", "e", "s", "e", "a", "r", "c", "h", " ", "i", "n", "d", "i", "c", "a", "t", "e", "s">>,
       <<"s", "c", "i", "e", "n", "t", "i", "s", "t", "s", " ", "f", "o", "u", "n", "d">>,
       <<"a", "c", "c", "o", "r", "d", "i", "n", "g", " ", "t", "o", " ", "r", "e", "s", "e", "a", "r", "c", "h">>,
       <<"e", "v", "i", "d", "e", "n", "c", "e", " ", "s", "u", "g", "g", "e", "s", "t", "s">>,
       <<"r", "e", "s", "u", "l", "t", "s", " ", "d", "e", "m", "o", "n", "s", "t", "r", "a", "t", "e">>,
       <<"a", "n", "a", "l", "y", "s", "i", "s", " ", "r", "e", "v", "e", "a", "l", "s">> >>

\* Claim(text=..., confidence_score=0.0, verified=False): the other fields
\* take the defaults of models.Claim
NewClaim(text) ==
    [text |-> text,
     related_scientific_study_ids |-> <<>>,
     confidence_score |-> Some(Zero),
     verified |-> FALSE,
     verification_notes |-> None,
     verified_at |-> None]

IsClaimSentence(sentence) ==
    \E k \in 1..Len(indicators) : Contains(lower(sentence), indicators[k])

\* an extraction that compares the indicators case-sensitively
extract_claims_case_sensitive(text) ==
    LET sentences == split_on(text, DOT)
        Keep(sentence) == \E k \in 1..Len(indicators) : Contains(sentence, indicators[k])
        kept == SelectSeq(sentences, Keep)
    IN  [i \in 1..Len(kept) |-> NewClaim(strip(kept[i]))]

extract_claims(text) ==
    LET sentences == split_on(text, DOT)
        kept == SelectSeq(sentences, IsClaimSentence)
    IN  [i \in 1..Len(kept) |-> NewClaim(strip(kept[i]))]

FragShows == <<"S", "t", "u", "d", "y", " ", "S", "h", "o", "w", "s", " ", "x">>
FragSuggests == <<" ", "e", "v", "i", "d", "e", "n", "c", "e", " ", "s", "u", "g", "g", "e", "s", "t", "s", " ", "y", " ">>
FragPlain == <<"w", "e", " ", "a", "t", "e">>
FragStudy == <<"a", " ", "s", "t", "u", "d", "y">>
FragShowsTail == <<" ", "s", "h", "o", "w", "s", " ", "b">>

MaxSentences == 3       \* pieces between periods in an extraction input

\* pieces a text is made of: two that hold an indicator (one in capitals, one
\* with blanks around it), one that holds none, and the two halves of an
\* indicator for either side of a period
Fragments == {FragShows, FragSuggests, FragPlain, FragStudy, FragShowsTail, <<>>}

\* str.join with a one-character separator
join_on(pieces, sep) ==
    JoinWith(pieces, <<sep>>, 1, Len(pieces))

ExtractTexts ==
    {join_on(ps, DOT) : ps \in UNION {[1..n -> Fragments] : n \in 1..MaxSentences}}

InitExtract ==
    /\ call = NoCall
    /\ ret = <<>>
    /\ EmbedIdle
    /\ DbIdle

ExtractClaims(text) ==
    /\ call = NoCall
    /\ call' = [op |-> "extract_claims", text |-> text]
    /\ ret' = <<extract_claims(text)>>
    /\ UNCHANGED <<embedVars, dbVars>>

NextExtract ==
    \/ \E text \in ExtractTexts : ExtractClaims(text)
    \/ Return

SpecExtract == InitExtract /\ [][NextExtract]_vars

\* C16: every Claim returned by extract_claims has confidence_score unset
\* (None) and verified false.
C16_ExtractedUnset ==
    call.op = "extract_claims" =>
        \A i \in 1..Len(ret[1]) :
            /\ ret[1][i].confidence_score = None
            /\ ret[1][i].verified = FALSE

\* the sentences of a text: what lies between its periods
SentenceBounds(t) ==
    {<<lo, hi>> \in (1..(Len(t) + 1)) \X (0..Len(t)) :
        /\ lo <= hi + 1
        /\ \A i \in lo..hi : t[i] # DOT
        /\ lo = 1 \/ t[lo - 1] = DOT
        /\ hi = Len(t) \/ t[hi + 1] = DOT}

HasIndicator(t, lo, hi) ==
    \E k \in 1..Len(indicators) : \E i \in lo..(hi - Len(indicators[k]) + 1) :
        \A j \in 1..Len(indicators[k]) : LowerChar(t[i + j - 1]) = indicators[k][j]

\* C17: extract_claims returns one Claim per sentence that contains an
\* indicator phrase (case-insensitively), in text order, and none for any
\* other sentence; a text without an indicator yields the empty list.
C17_OneClaimPerIndicatorSentence ==
    call.op = "extract_claims" =>
        LET t == call.text
            claims == ret[1]
            hits == {b \in SentenceBounds(t) : HasIndicator(t, b[1], b[2])}
            Rank(b) == Cardinality({c \in hits : c[1] < b[1]}) + 1
        IN  /\ Len(claims) = Cardinality(hits)
            /\ \A b \in hits : claims[Rank(b)].text = strip(SubSeq(t, b[1], b[2]))

\* C17 witness: a text of three sentences, the first (in capitals) and the
\* last with an indicator, the middle one without, gave two claims
C17_Witness ==
    /\ call.op = "extract_claims"
    /\ call.text = join_on(<<FragShows, FragPlain, FragSuggests>>, DOT)
    /\ Len(ret[1]) = 2
    /\ ret[1][1].text = FragShows

(***************************************************************************)
(* ClaimService.process_claim: retrieval, then entailment scoring.         *)
(*                                                                         *)
(* The notes of a claim are the sequence of their lines.  The support      *)
(* score of a (claim, study) pair is whatever the classifier answers.      *)
(***************************************************************************)
MaxNow == 1             \* readings of datetime.utcnow()

FindLimit == 5          \* find_relevant_studies(claim, limit=5)

\* settings.MIN_SIMILARITY_SCORE
MIN_SIMILARITY_SCORE == Rat(1, 2)

\* settings.MIN_CLAIM_CONFIDENCE: the default 0.7, or 0.5 from the environment
ClaimConfidenceSettings == {Rat(7, 10), Rat(1, 2)}

\* softmax probabilities the classifier can answer
SupportScores == {Zero, Rat(1, 2), Rat(3, 4)}

\* f"{x:.2f}": hundredths, rounded half to even
Format2f(x) ==
    LET q == (x.num * 100) \div x.den
        r == (x.num * 100) % x.den
    IN  IF 2 * r > x.den THEN q + 1
        ELSE IF 2 * r < x.den THEN q
        ELSE IF q % 2 = 0 THEN q ELSE q + 1

\* f"Supported by {study.title} (confidence: {support_score:.2f})"
SupportLine(title, support_score) ==
    <<"Supported by ", title, " (confidence: ", Format2f(support_score), ")">>

NoStrongEvidenceMessage == <<"No strong supporting evidence found in provided studies.">>
NoRelevantMessage == <<"No relevant scientific studies found.">>

VerifyStart == [best_confidence |-> Zero, verification_notes |-> <<>>, claim_verified |-> FALSE]

\* a loop that lets only scores above the threshold count as the best
RECURSIVE VerifyLoopGatedBest(_, _, _, _, _)
VerifyLoopGatedBest(scientific_studies, scores, threshold, i, st) ==
    IF i > Len(scientific_studies) THEN st
    ELSE LET support_score == scores[i]
             above == RatLt(threshold, support_score)
         IN  VerifyLoopGatedBest(scientific_studies, scores, threshold, i + 1,
                [best_confidence |->
                    IF above /\ RatLt(st.best_confidence, support_score)
                    THEN support_score ELSE st.best_confidence,
                 verification_notes |->
                    IF above
                    THEN Append(st.verification_notes,
                                SupportLine(scientific_studies[i].title, support_score))
                    ELSE st.verification_notes,
                 claim_verified |-> st.claim_verified \/ above])

\* the for loop of verify_claim, from study i on
RECURSIVE VerifyLoop(_, _, _, _, _)
VerifyLoop(scientific_studies, scores, threshold, i, st) ==
    IF i > Len(scientific_studies) THEN st
    ELSE LET support_score == scores[i]
             above == RatLt(threshold, support_score)
         IN  VerifyLoop(scientific_studies, scores, threshold, i + 1,
                [best_confidence |->
                    IF RatLt(st.best_confidence, support_score)
                    THEN support_score ELSE st.best_confidence,
                 verification_notes |->
                    IF above
                    THEN Append(st.verification_notes,
                                SupportLine(scientific_studies[i].title, support_score))
                    ELSE st.verification_notes,
                 claim_verified |-> st.claim_verified \/ above])

\* a verification that notes only the first study with the best score
verify_claim_best_only(scientific_studies, scores, threshold) ==
    LET st == VerifyLoop(scientific_studies, scores, threshold, 1, VerifyStart)
        best == {i \in 1..Len(scores) :
                    /\ RatEq(scores[i], st.best_confidence)
                    /\ RatLt(threshold, scores[i])}
        first == CHOOSE i \in best : \A j \in best : i <= j
    IN  [verified |-> st.claim_verified,
         confidence |-> st.best_confidence,
         notes |-> IF best # {}
                   THEN <<SupportLine(scientific_studies[first].title, scores[first])>>
                   ELSE <<NoStrongEvidenceMessage>>]

\* verify_claim: (claim_verified, best_confidence, final_notes)
verify_claim(scientific_studies, scores, threshold) ==
    LET st == VerifyLoop(scientific_studies, scores, threshold, 1, VerifyStart)
    IN  [verified |-> st.claim_verified,
         confidence |-> st.best_confidence,
         notes |-> IF st.verification_notes # <<>> THEN st.verification_notes
                   ELSE <<NoStrongEvidenceMessage>>]

\* the ScientificStudy built from a retrieved document
StudyOf(doc) == [id |-> doc.id, title |-> <<"title of study ", doc.id>>]

\* find_relevant_studies: the lists of studies retrieval can return
find_relevant_studies(docs, query_vector) ==
    {[i \in 1..Len(results) |-> StudyOf(results[i])] :
        results \in search_similar(docs, query_vector, FindLimit, MIN_SIMILARITY_SCORE)}

\* a process_claim without the branch for an empty retrieval
process_claim_always_verifies(claim, relevant_studies, scores, threshold, now) ==
    LET v == verify_claim(relevant_studies, scores, threshold)
    IN  [claim EXCEPT
            !.verified = v.verified,
            !.confidence_score = Some(v.confidence),
            !.verification_notes = Some(v.notes),
            !.verified_at = Some(now),
            !.related_scientific_study_ids =
                [i \in 1..Len(relevant_studies) |-> relevant_studies[i].id]]

\* process_claim, given what retrieval and the classifier answer
process_claim(claim, relevant_studies, scores, threshold, now) ==
    IF relevant_studies = <<>>
    THEN [claim EXCEPT
            !.verification_notes = Some(<<NoRelevantMessage>>),
            !.confidence_score = Some(Zero),
            !.verified = FALSE]
    ELSE LET v == verify_claim(relevant_studies, scores, threshold)
         IN  [claim EXCEPT
                !.verified = v.verified,
                !.confidence_score = Some(v.confidence),
                !.verification_notes = Some(v.notes),
                !.verified_at = Some(now),
                !.related_scientific_study_ids =
                    [i \in 1..Len(relevant_studies) |-> relevant_studies[i].id]]

\* the claims handed to process_claim: those extract_claims made of a text
ClaimText == join_on(<<FragShows, FragSuggests>>, DOT)

FreshClaims == {extract_claims(ClaimText)[i] : i \in 1..Len(extract_claims(ClaimText))}

InitClaim ==
    /\ call = NoCall
    /\ ret = <<>>
    /\ EmbedIdle
    /\ DbIdle

\* process_claim(claim): the claim object is updated in place and returned
ProcessClaim(claim, raw, threshold, now) ==
    /\ call = NoCall
    /\ LET query_vector == base_generate_embedding(raw)
       IN  \E relevant_studies \in find_relevant_studies(studies, query_vector) :
           \E scores \in [1..Len(relevant_studies) -> SupportScores] :
              /\ ret' = <<process_claim(claim, relevant_studies, scores, threshold, now)>>
              /\ call' = [op |-> "process_claim", claim |-> claim,
                          relevant_studies |-> relevant_studies,
                          scores |-> scores,
                          MIN_CLAIM_CONFIDENCE |-> threshold]
    /\ UNCHANGED <<embedVars, dbVars>>

NextClaim ==
    \/ \E v \in StoredVectors : CreateStudy(v, "biology")
    \/ \E claim \in FreshClaims, raw \in QueryOutputs,
          threshold \in ClaimConfidenceSettings, now \in 1..MaxNow :
            ProcessClaim(claim, raw, threshold, now)
    \/ SearchRaises
    \/ Return

SpecClaim == InitClaim /\ [][NextClaim]_vars

\* the largest of the support scores the classifier answered
BestScore(scores) ==
    CHOOSE s \in {scores[i] : i \in 1..Len(scores)} :
        \A i \in 1..Len(scores) : RatLe(scores[i], s)

Processed == call.op = "process_claim"

\* C12: process_claim on a claim for which retrieval returns no study yields
\* verified = false, confidence_score = 0.0 and the note that no relevant
\* studies were found; the classifier is not asked for any score.
C12_NoCandidates ==
    (Processed /\ call.relevant_studies = <<>>) =>
        /\ ret[1].verified = FALSE
        /\ ret[1].confidence_score.some /\ RatEq(ret[1].confidence_score.val, Zero)
        /\ ret[1].verification_notes = Some(<<NoRelevantMessage>>)
        /\ Len(call.scores) = 0

\* C12 witness: the collection holds studies, retrieval returned none of
\* them, and the claim came back with the no-studies note
C12_Witness ==
    /\ Processed
    /\ studies # <<>>
    /\ call.relevant_studies = <<>>
    /\ ret[1].verification_notes = Some(<<NoRelevantMessage>>)

\* C13: with at least one candidate, confidence_score is the maximum support
\* score over all candidates and verified = (maximum >= MIN_CLAIM_CONFIDENCE).
C13_VerifiedAtThreshold ==
    (Processed /\ call.relevant_studies # <<>>) =>
        /\ ret[1].confidence_score.some
        /\ RatEq(ret[1].confidence_score.val, BestScore(call.scores))
        /\ ret[1].verified = RatLe(call.MIN_CLAIM_CONFIDENCE, BestScore(call.scores))

IsSupportLine(line) == Len(line) = 5 /\ line[1] = "Supported by "

\* C14: the notes hold exactly one line, with the study's title and score,
\* for each candidate whose support score is above MIN_CLAIM_CONFIDENCE, in
\* retrieval order, equal scores included; verified is true exactly when
\* there is such a line.
C14_NoteLinePerSupporter ==
    (Processed /\ call.relevant_studies # <<>>) =>
        LET above == {i \in 1..Len(call.scores) :
                        RatLt(call.MIN_CLAIM_CONFIDENCE, call.scores[i])}
            Nth(k) == CHOOSE i \in above : Cardinality({j \in above : j < i}) = k - 1
            lines == SelectSeq(ret[1].verification_notes.val, IsSupportLine)
        IN  /\ Len(lines) = Cardinality(above)
            /\ \A k \in 1..Len(lines) :
                  lines[k] = <<"Supported by ", call.relevant_studies[Nth(k)].title,
                               " (confidence: ", Format2f(call.scores[Nth(k)]), ")">>
            /\ ret[1].verified = (Len(lines) > 0)

\* C14 witness: two candidates with the same score above the threshold, and
\* two lines in the notes
C14_Witness ==
    /\ Processed
    /\ Len(call.relevant_studies) = 2
    /\ RatEq(call.scores[1], call.scores[2])
    /\ RatLt(call.MIN_CLAIM_CONFIDENCE, call.scores[1])
    /\ Len(ret[1].verification_notes.val) = 2

\* what process_claim leaves in a claim when retrieval found nothing
NoEvidenceOutcome(claim) ==
    /\ claim.verified = FALSE
    /\ claim.confidence_score = Some(Zero)
    /\ claim.verification_notes = Some(<<NoRelevantMessage>>)

\* C15: a claim with candidates of which none is above the threshold ends
\* with verified = false and confidence_score = the best score, and its
\* fields differ from those of a claim with no candidate, best score 0
\* included.
C15_OutcomesDistinct ==
    (/\ Processed
     /\ call.relevant_studies # <<>>
     /\ \A i \in 1..Len(call.scores) : ~RatLt(call.MIN_CLAIM_CONFIDENCE, call.scores[i])) =>
        /\ ret[1].verified = FALSE
        /\ ret[1].confidence_score.some
        /\ RatEq(ret[1].confidence_score.val, BestScore(call.scores))
        /\ ~NoEvidenceOutcome(ret[1])

\* C15 witness: candidates were scored, the best score is 0
C15_Witness ==
    /\ Processed
    /\ call.relevant_studies # <<>>
    /\ RatEq(BestScore(call.scores), Zero)
    /\ ret[1].verified = FALSE

(***************************************************************************)
(* DatabaseManager.connect and vector_similarity_search as coroutines on   *)
(* one event loop: a coroutine runs alone from one await to the next.      *)
(* `call` holds the connect() and the ranking call in flight, and whether  *)
(* the manager's db has been set (connect() sets it once a ping answered;  *)
(* nothing unsets it).                                                     *)
(*                                                                         *)
(* src/app/database.py and src/database.py both define the manager; they   *)
(* differ in what a failed index creation leads to.                        *)
(***************************************************************************)
Modules == {"app", "legacy"}

IdleConnect ==
    [pc |-> "idle", module |-> "app", flag_before |-> FALSE, vector_index |-> "pending"]

IdleRank ==
    [pc |-> "idle", query_vector |-> <<>>, limit |-> 0, metadata_filters |-> NoFilters,
     pipeline |-> <<>>, executed |-> <<>>]

\* db.studies when the manager connects
FixtureStudies ==
    << [id |-> 1, vector |-> [num |-> <<10, 0>>, den |-> 5], discipline |-> "physics"],
       [id |-> 2, vector |-> [num |-> <<3, 4>>, den |-> 5], discipline |-> "physics"],
       [id |-> 3, vector |-> [num |-> <<-5, 0>>, den |-> 5], discipline |-> "biology"] >>

InitFlag ==
    /\ call = [op |-> "concurrent", db |-> FALSE,
               connect |-> IdleConnect, rank |-> IdleRank]
    /\ ret = <<>>
    /\ EmbedIdle
    /\ studies = FixtureStudies
    /\ articles = <<>>
    /\ vector_search_enabled = FALSE

\* connect(): the client is made, the ping is awaited
ConnectBegin(module) ==
    /\ call.op = "concurrent"
    /\ call.connect.pc \in {"idle", "returned", "raised"}
    /\ call' = [call EXCEPT !.connect =
                    [pc |-> "ping", module |-> module,
                     flag_before |-> vector_search_enabled, vector_index |-> "pending"]]
    /\ UNCHANGED <<ret, embedVars, dbVars>>

\* the ping answers (Atlas or local) and self.db is set, or no server
\* answers: ConnectionError
ConnectPing(reachable) ==
    /\ call.op = "concurrent"
    /\ call.connect.pc = "ping"
    /\ call' = [call EXCEPT
            !.db = call.db \/ reachable,
            !.connect.pc = IF reachable THEN "create_vector_index" ELSE "raised"]
    /\ UNCHANGED <<ret, embedVars, dbVars>>

\* a fallback set-up that leaves the flag alone when its own index fails
FallbackFlagOnlyOnSuccess(outcome, current) ==
    IF outcome = "failed" THEN current ELSE FALSE

\* _setup_fallback_vector_index: the flag is False on every path
FallbackFlag(outcome, current) == FALSE

\* the await of db.studies.create_index with vectorSearchOptions returns or
\* raises; the module decides what a failure leads to
CreateVectorIndex(outcome) ==
    /\ call.op = "concurrent"
    /\ call.connect.pc = "create_vector_index"
    /\ vector_search_enabled' = IF outcome = "created" THEN TRUE ELSE vector_search_enabled
    /\ call' = [call EXCEPT
            !.connect.vector_index = outcome,
            !.connect.pc =
                IF outcome = "created" THEN "text_index"
                ELSE IF outcome = "tier_disallowed" \/ call.connect.module = "legacy"
                     THEN "fallback_index"
                     ELSE "raised"]
    /\ UNCHANGED <<ret, embedVars, studies, articles>>

\* the plain index on `vector`: exists already, is created, or fails
FallbackIndex(outcome) ==
    /\ call.op = "concurrent"
    /\ call.connect.pc = "fallback_index"
    /\ IF call.connect.module = "app"
       THEN /\ vector_search_enabled' = FallbackFlag(outcome, vector_search_enabled)
            /\ call' = [call EXCEPT !.connect.pc = "text_index"]
       ELSE IF outcome = "failed"
            THEN /\ UNCHANGED vector_search_enabled
                 /\ call' = [call EXCEPT !.connect.pc = "raised"]
            ELSE /\ vector_search_enabled' = FALSE
                 /\ call' = [call EXCEPT !.connect.pc = "text_index"]
    /\ UNCHANGED <<ret, embedVars, studies, articles>>

\* the text index and the metadata indexes: done, or the failure is raised
OtherIndexes(ok) ==
    /\ call.op = "concurrent"
    /\ call.connect.pc = "text_index"
    /\ call' = [call EXCEPT !.connect.pc = IF ok THEN "returned" ELSE "raised"]
    /\ UNCHANGED <<ret, embedVars, dbVars>>

\* the value the closing $project has for its "$cond if": the Python value
\* put into the pipeline when it was built
ScoreConditionReRead(pipeline, flag_now) == flag_now

ScoreCondition(pipeline, flag_now) == pipeline.score_meta

\* vector_similarity_search up to its await: the pipeline is built, reading
\* the flag for the first stage and for the projection; self.db.studies
\* raises before anything is sent when no connect() has set db
RankBuildPipeline(raw, limit, metadata_filters) ==
    /\ call.op = "concurrent"
    /\ call.rank.pc = "idle"
    /\ call' = [call EXCEPT !.rank =
            [pc |-> IF call.db THEN "aggregate" ELSE "raised",
             query_vector |-> base_generate_embedding(raw),
             limit |-> limit,
             metadata_filters |-> metadata_filters,
             pipeline |-> [knn |-> vector_search_enabled,
                           score_meta |-> vector_search_enabled],
             executed |-> <<>>]]
    /\ UNCHANGED <<ret, embedVars, dbVars>>

\* the server answers the pipeline it was sent; to_list returns, or what
\* the server raises is raised again
RankAggregate ==
    /\ call.op = "concurrent"
    /\ call.rank.pc = "aggregate"
    /\ LET executed == [knn |-> call.rank.pipeline.knn,
                        score_meta |-> ScoreCondition(call.rank.pipeline,
                                                      vector_search_enabled)]
       IN  \E out \in aggregate(studies,
                                Pipeline(executed.knn, executed.score_meta,
                                         call.rank.metadata_filters),
                                call.rank.query_vector, call.rank.limit,
                                call.rank.metadata_filters) :
              /\ ret' = <<out.results>>
              /\ call' = [call EXCEPT
                            !.rank.pc = IF out.raised = "none" THEN "returned"
                                        ELSE "raised",
                            !.rank.executed = executed]
    /\ UNCHANGED <<embedVars, dbVars>>

\* the caller has the results or the exception; the next ranking call may
\* come
RankDone ==
    /\ call.op = "concurrent"
    /\ call.rank.pc \in {"returned", "raised"}
    /\ call' = [call EXCEPT !.rank = IdleRank]
    /\ ret' = <<>>
    /\ UNCHANGED <<embedVars, dbVars>>

IndexOutcomes == {"created", "tier_disallowed", "other_failure"}

FallbackOutcomes == {"exists", "created", "failed"}

NextFlag ==
    \/ \E module \in Modules : ConnectBegin(module)
    \/ \E reachable \in BOOLEAN : ConnectPing(reachable)
    \/ \E outcome \in IndexOutcomes : CreateVectorIndex(outcome)
    \/ \E outcome \in FallbackOutcomes : FallbackIndex(outcome)
    \/ \E ok \in BOOLEAN : OtherIndexes(ok)
    \/ \E raw \in QueryOutputs, limit \in 1..MaxLimit, f \in MetadataFilters :
          RankBuildPipeline(raw, limit, f)
    \/ RankAggregate
    \/ RankDone

SpecFlag == InitFlag /\ [][NextFlag]_vars

\* C18: when connect() has returned, vector_search_enabled is true exactly
\* when the native vector index was created (false when the tier disallowed
\* it); and the flag changes only in an index set-up step of connect(),
\* never in a step of a ranking call.
C18_FlagSetByIndexSetup ==
    /\ [](call.connect.pc = "returned" =>
            /\ vector_search_enabled = (call.connect.vector_index = "created")
            /\ call.connect.vector_index = "tier_disallowed" => ~vector_search_enabled)
    /\ [][vector_search_enabled' # vector_search_enabled =>
            /\ call.connect.pc \in {"create_vector_index", "fallback_index"}
            /\ call'.rank = call.rank]_vars

\* C18 witness: a second connect() found the tier disallowing the index, and
\* returned with the flag switched from true to false
C18_Witness ==
    /\ call.connect.pc = "returned"
    /\ call.connect.vector_index = "tier_disallowed"
    /\ call.connect.flag_before
    /\ ~vector_search_enabled

\* C19: every vector_similarity_search builds its first stage and its score
\* projection from one value of the flag, also when index set-up changes the
\* flag while the call is in flight: in the pipeline the call built, and in
\* the pipeline the server executed when one was sent.
C19_OneModePerCall ==
    /\ call.rank.pc \in {"aggregate", "returned", "raised"} =>
            call.rank.pipeline.knn = call.rank.pipeline.score_meta
    /\ (call.rank.pc \in {"returned", "raised"} /\ DOMAIN call.rank.executed # {}) =>
            call.rank.executed.knn = call.rank.executed.score_meta

\* C19 witness: the server answered the pipeline of a ranking call after
\* the flag had changed under the call
C19_Witness ==
    /\ call.rank.pc \in {"returned", "raised"}
    /\ DOMAIN call.rank.executed # {}
    /\ call.rank.pipeline.knn # vector_search_enabled
    /\ call.rank.executed.knn = call.rank.pipeline.knn

(***************************************************************************)
(* Requests on the event loop.  A coroutine keeps the loop's thread from   *)
(* one real suspension to the next.  _generate_chunk_embedding,            *)
(* BaseService.generate_embedding and verify_claim call the model in the   *)
(* coroutine itself, as an ordinary function call.                         *)
(***************************************************************************)
MaxTasks == 2           \* requests in flight
MaxUnits == 3           \* chunks of a text, or studies a claim is scored against

\* texts handed to VectorService.generate_embedding: of one chunk, of two
LoopTexts == {t \in EmbedTexts : Len(TextChunks[t]) \in 1..2}

\* what a model call does here: it yields an output, or it raises
LoopOutcomes == {[ok |-> TRUE, raw |-> <<3, 4>>], [ok |-> FALSE, raw |-> <<>>]}

IdleTask == [pc |-> "idle", kind |-> "none", content_type |-> "none",
             remaining |-> 0, text |-> <<>>, outs |-> <<>>]

\* VectorService.generate_embedding (one model call per chunk, then the
\* metrics entry, then it returns), BaseService.create (one model call for
\* the text, then await insert_one), ClaimService.verify_claim (one model
\* call per study, then it returns)
RequestKinds == {"generate_embedding", "create", "verify_claim"}

\* the requests that arrive: kind, service, text, model calls to make
Requests ==
    {[pc |-> "ready", kind |-> "generate_embedding", content_type |-> "none",
      remaining |-> Len(TextChunks[t]), text |-> t, outs |-> <<>>] : t \in LoopTexts}
    \cup {[pc |-> "ready", kind |-> "create", content_type |-> ct,
           remaining |-> 1, text |-> <<>>, outs |-> <<>>] :
                ct \in {"scientific_study", "article"}}
    \cup {[pc |-> "ready", kind |-> "verify_claim", content_type |-> "none",
           remaining |-> n, text |-> <<>>, outs |-> <<>>] : n \in 1..MaxUnits}

InitLoop ==
    /\ call = [op |-> "loop", running |-> 0, tasks |-> [t \in 1..MaxTasks |-> IdleTask]]
    /\ ret = <<>>
    /\ EmbedIdle
    /\ DbIdle

\* the loop's thread is free, or task t has it
CanRun(t) == call.running \in {0, t}

\* creates of studies in flight
StudyCreates ==
    {t \in 1..MaxTasks : call.tasks[t].kind = "create"
                         /\ call.tasks[t].content_type = "scientific_study"}

\* a request arrives: its coroutine is scheduled on the loop
Submit(t, request) ==
    /\ call.op = "loop"
    /\ call.tasks[t].pc = "idle"
    /\ (request.kind = "create" /\ request.content_type = "scientific_study") =>
            Len(studies) + Cardinality(StudyCreates) < MaxStudies
    /\ call' = [call EXCEPT !.tasks[t] = request]
    /\ UNCHANGED <<ret, embedVars, dbVars>>

\* the coroutine runs up to the model call and enters it
BeginInference(t) ==
    /\ call.op = "loop"
    /\ call.tasks[t].pc = "ready"
    /\ CanRun(t)
    /\ call' = [call EXCEPT !.running = t, !.tasks[t].pc = "inferring"]
    /\ UNCHANGED <<ret, embedVars, dbVars>>

\* the model call returns into the coroutine or raises in it.  When it
\* raises, generate_embedding writes its failure entry and returns None,
\* create and verify_claim raise.  Otherwise the coroutine goes on to the
\* next chunk or study without suspending; after the last one
\* generate_embedding writes its metrics entry and returns, verify_claim
\* returns, and create awaits insert_one
EndInference(t, outcome, dt) ==
    /\ call.op = "loop"
    /\ call.tasks[t].pc = "inferring"
    /\ LET task == call.tasks[t]
           outs == IF task.kind = "verify_claim" THEN task.outs
                   ELSE Append(task.outs, outcome)
           chunks == 1..Len(TextChunks[task.text])
       IN  IF ~outcome.ok
           THEN /\ call' = [call EXCEPT !.running = 0, !.tasks[t] = IdleTask]
                /\ metrics' =
                        IF task.kind = "generate_embedding"
                        THEN generate_embedding(task.text, [k \in chunks |-> outcome],
                                                dt, metrics).metrics
                        ELSE metrics
           ELSE IF task.remaining > 1
           THEN /\ call' = [call EXCEPT !.tasks[t].pc = "ready",
                                        !.tasks[t].remaining = task.remaining - 1,
                                        !.tasks[t].outs = outs]
                /\ UNCHANGED metrics
           ELSE IF task.kind = "create"
           THEN /\ call' = [call EXCEPT !.running = 0,
                                        !.tasks[t].pc = "insert_one",
                                        !.tasks[t].remaining = 0,
                                        !.tasks[t].outs = outs]
                /\ UNCHANGED metrics
           ELSE /\ call' = [call EXCEPT !.running = 0, !.tasks[t] = IdleTask]
                /\ metrics' =
                        IF task.kind = "generate_embedding"
                        THEN generate_embedding(task.text, outs, dt, metrics).metrics
                        ELSE metrics
    /\ UNCHANGED <<ret, attempts, dbVars>>

\* the database answers; the loop resumes the coroutine, which returns.  A
\* study is stored with the vector made from its text; for an Article
\* insert_one raises InvalidDocument (its source_url is an HttpUrl) and
\* nothing is stored
InsertDone(t) ==
    /\ call.op = "loop"
    /\ call.tasks[t].pc = "insert_one"
    /\ CanRun(t)
    /\ call' = [call EXCEPT !.tasks[t] = IdleTask]
    /\ IF call.tasks[t].content_type = "scientific_study"
       THEN studies' = Append(studies,
                              NewDoc(studies,
                                     base_generate_embedding(call.tasks[t].outs[1].raw),
                                     "biology"))
       ELSE UNCHANGED studies
    /\ UNCHANGED <<ret, embedVars, articles, vector_search_enabled>>

NextLoop ==
    \/ \E t \in 1..MaxTasks, request \in Requests : Submit(t, request)
    \/ \E t \in 1..MaxTasks : BeginInference(t)
    \/ \E t \in 1..MaxTasks, outcome \in LoopOutcomes, dt \in 1..MaxElapsed :
          EndInference(t, outcome, dt)
    \/ \E t \in 1..MaxTasks : InsertDone(t)

SpecLoop == InitLoop /\ [][NextLoop]_vars

\* C20: while the model runs for one request, the requesting coroutine is
\* suspended (the work is with a worker pool) and every other request that
\* is ready to run can run.
C20_InferenceOffloaded ==
    \A t \in 1..MaxTasks :
        call.tasks[t].pc = "inferring" =>
            /\ call.running # t
            /\ \A u \in 1..MaxTasks :
                  (u # t /\ call.tasks[u].pc \in {"ready", "insert_one"}) => CanRun(u)

(***************************************************************************)
(* Document creation: BaseService.create, and the POST /articles route,    *)
(* which inserts the request body itself.                                  *)
(***************************************************************************)
\* vector=[]
EmptyVector == [num |-> <<>>, den |-> 1]

\* items handed to create: without a vector, with an empty one, or with one
CreateItems ==
    {[vector |-> None], [vector |-> Some(EmptyVector)]}
    \cup {[vector |-> Some(v)] : v \in StoredVectors}

\* `not item.vector`: None, or a list with no element
NotVector(item) == item.vector = None \/ item.vector.val.num = <<>>

\* BaseService.create on a collection: the collection afterwards, and
\* whether the call raised.  The embedding comes first and its failure is
\* raised; the model_dump of an Article holds source_url as an HttpUrl,
\* which insert_one cannot encode: it raises InvalidDocument and nothing is
\* stored.
create(content_type, coll, item, outcome) ==
    IF NotVector(item) /\ ~outcome.ok
    THEN [raised |-> TRUE, error |-> "embedding", coll |-> coll]
    ELSE IF content_type = "article"
    THEN [raised |-> TRUE, error |-> "InvalidDocument", coll |-> coll]
    ELSE [raised |-> FALSE, error |-> "none",
          coll |-> Append(coll, NewDoc(coll,
                                       IF NotVector(item)
                                       THEN base_generate_embedding(outcome.raw)
                                       ELSE item.vector.val,
                                       "biology"))]

InitCreate ==
    /\ call = NoCall
    /\ ret = <<>>
    /\ EmbedIdle
    /\ DbIdle

\* scientific_study_service.create(item) / article_service.create(item)
Create(content_type, item, outcome) ==
    /\ call = NoCall
    /\ Len(CollectionOf(content_type)) <
            (IF content_type = "scientific_study" THEN MaxStudies ELSE MaxArticles + 1)
    /\ LET r == create(content_type, CollectionOf(content_type), item, outcome)
       IN  /\ IF content_type = "scientific_study"
              THEN studies' = r.coll /\ UNCHANGED articles
              ELSE articles' = r.coll /\ UNCHANGED studies
           /\ call' = [op |-> "create", content_type |-> content_type, item |-> item,
                       encoder_ok |-> outcome.ok, raised |-> r.raised,
                       error |-> r.error]
    /\ UNCHANGED <<ret, embedVars, vector_search_enabled>>

\* POST /articles
CreateArticleRoute ==
    /\ call = NoCall
    /\ Len(articles) < MaxArticles + 1
    /\ articles' = create_article(articles)
    /\ call' = [op |-> "create_article"]
    /\ UNCHANGED <<ret, embedVars, studies, vector_search_enabled>>

NextCreate ==
    \/ \E ct \in {"scientific_study", "article"}, item \in CreateItems,
          outcome \in EncoderOutcomes : Create(ct, item, outcome)
    \/ CreateArticleRoute
    \/ Return

SpecCreate == InitCreate /\ [][NextCreate]_vars

\* C21: on every creation path a document is stored only with its vector:
\* no stored document lacks one, and a create whose embedding failed has
\* raised.
C21_StoredWithVector ==
    /\ \A i \in 1..Len(studies) : studies[i].vector # None
    /\ \A i \in 1..Len(articles) : articles[i].vector # None
    /\ (call.op = "create" /\ NotVector(call.item) /\ ~call.encoder_ok) => call.raised

(***************************************************************************)
(* The entry points that reach search_similar, and what each does to       *)
(* min_score before the ranker runs.                                       *)
(***************************************************************************)
\* min_score values a caller may send
RequestedMinScores == {Rat(-1, 2), Rat(0, 1), Rat(1, 2), Rat(1, 1), Rat(3, 2)}

\* settings.MIN_SIMILARITY_SCORE: the default, or a value from the
\* environment (the Field declares no range)
SimilarityFloorSettings == {MIN_SIMILARITY_SCORE, Rat(3, 2)}

\* Field(ge=0.0, le=1.0) / Query(ge=0.0, le=1.0)
ValidMinScore(min_score) == RatLe(Zero, min_score) /\ RatLe(min_score, One)

Rejected(op, min_score) ==
    [op |-> op, min_score |-> min_score, ranked |-> FALSE]

Ranked(op, min_score) ==
    [op |-> op, min_score |-> min_score, ranked |-> TRUE]

InitBoundary ==
    /\ call = NoCall
    /\ ret = <<>>
    /\ EmbedIdle
    /\ DbIdle

\* POST /search with a SearchQuery body: validated, then search_all up to
\* the answer of its first search
SearchRoute(content_type, raw, limit, min_score) ==
    /\ call = NoCall
    /\ IF ValidMinScore(min_score)
       THEN SearchAllStep("search_route", content_type, base_generate_embedding(raw),
                          limit, min_score, search_all_collections(content_type),
                          <<>>, <<>>, <<>>)
       ELSE /\ ret' = <<>>
            /\ call' = Rejected("search_route", min_score)
    /\ UNCHANGED <<embedVars, dbVars>>

\* POST /articles/search: Query parameters validated, then
\* search_similar_articles
SearchArticlesRoute(raw, limit, min_score) ==
    /\ call = NoCall
    /\ IF ValidMinScore(min_score)
       THEN /\ \E r \in search_similar(articles, base_generate_embedding(raw),
                                       limit, min_score) :
                   ret' = <<ToResponses(r, "article")>>
            /\ call' = Ranked("search_articles_route", min_score)
       ELSE /\ ret' = <<>>
            /\ call' = Rejected("search_articles_route", min_score)
    /\ UNCHANGED <<embedVars, dbVars>>

\* find_relevant_studies: min_score = settings.MIN_SIMILARITY_SCORE
FindRelevantStudies(raw, floor) ==
    /\ call = NoCall
    /\ \E r \in search_similar(studies, base_generate_embedding(raw), FindLimit, floor) :
          ret' = <<ToResponses(r, "scientific_study")>>
    /\ call' = Ranked("find_relevant_studies", floor)
    /\ UNCHANGED <<embedVars, dbVars>>

NextBoundary ==
    \/ \E v \in StoredVectors : CreateStudy(v, "biology")
    \/ CreateArticle
    \/ \E ct \in ContentTypes, raw \in QueryOutputs, limit \in 1..MaxLimit,
          ms \in RequestedMinScores : SearchRoute(ct, raw, limit, ms)
    \/ \E raw \in QueryOutputs, limit \in 1..MaxLimit, ms \in RequestedMinScores :
          SearchArticlesRoute(raw, limit, ms)
    \/ SearchAllNext
    \/ \E raw \in QueryOutputs, floor \in SimilarityFloorSettings :
          FindRelevantStudies(raw, floor)
    \/ Return

SpecBoundary == InitBoundary /\ [][NextBoundary]_vars

\* C22: on every entry point that reaches search_similar, the ranker runs
\* only with a min_score within [0, 1]; a value outside is rejected first.
C22_MinScoreValidated ==
    call.op \in {"search_route", "search_articles_route", "find_relevant_studies"} =>
        (call.ranked <=> ValidMinScore(call.min_score))

(***************************************************************************)
(* search_all and the content_type of a query.                             *)
(***************************************************************************)
\* C23: search_all with content_type "scientific_study" returns only
\* scientific_study results, with "article" only article results, and with
\* no content_type the `limit` best of the union of what its two searches
\* read from the collections; every result carries the tag of the
\* collection its document is in.
C23_ContentTypeFilter ==
    call.op = "search_all" =>
        LET items == ret[1]
            n == Len(items)
            union == Passing("any", call.query_vector, call.min_score)
        IN  /\ call.content_type \in {"scientific_study", "article"} =>
                  \A i \in 1..n : items[i].content_type = call.content_type
            /\ call.content_type = "any" =>
                  /\ n = Min(call.limit, Cardinality(union))
                  /\ \A c \in union :
                        (\A i \in 1..n : ~SameDoc(items[i], c)) =>
                            \A i \in 1..n : RatLe(c.score, items[i].score)
            /\ \A i \in 1..n :
                  /\ items[i].content_type \in {"scientific_study", "article"}
                  /\ items[i].content \in
                        1..Len(IF items[i].content_type = "scientific_study"
                               THEN call.studies_read ELSE call.articles_read)
                  /\ RatEq(items[i].score,
                           Similarity(DocOf(items[i]).vector, call.query_vector))

\* C23 witness: a search restricted to scientific studies returned a study
\* although an article scores at least as well
C23_Witness ==
    /\ call.op = "search_all"
    /\ call.content_type = "scientific_study"
    /\ Len(ret[1]) > 0
    /\ \E i \in 1..Len(articles) :
          RatLe(ret[1][1].score, Similarity(articles[i].vector, call.query_vector))

(***************************************************************************)
(* The form of a preprocessed text.                                        *)
(***************************************************************************)
IsWordChar(c) == IsPrintable(c) /\ ~IsSpace(c)

\* the words of a text: its maximal runs of printable non-blank characters
WordCount(t) ==
    Cardinality({i \in 1..Len(t) : IsWordChar(t[i]) /\ (i = 1 \/ ~IsWordChar(t[i - 1]))})

\* C24: the output of _preprocess_text has no non-printable character, no
\* newline or tab, no two consecutive spaces, no leading or trailing space,
\* and as many words as the input.
C24_PreprocessNormalForm ==
    (call.op = "preprocess_text" /\ Len(ret) >= 1) =>
        LET out == ret[1]
        IN  /\ \A i \in 1..Len(out) : IsPrintable(out[i]) /\ out[i] \notin {LF, TAB}
            /\ \A i \in 1..(Len(out) - 1) : ~(out[i] = SP /\ out[i + 1] = SP)
            /\ out # <<>> => (out[1] # SP /\ out[Len(out)] # SP)
            /\ WordCount(out) = WordCount(call.text)

(***************************************************************************)
(* ContentService._chunk_text (src/app/services.py, and the same code in   *)
(* src/services.py): a while loop over a start index, with chunk_size and  *)
(* overlap taken from the settings.  One action per iteration.             *)
(***************************************************************************)
MaxLoopWords == 3       \* words of a text given to the loop
MaxLoopSetting == 3     \* largest CHUNK_SIZE and CHUNK_OVERLAP
MaxChunks == 4          \* chunks the list may hold before the model stops

\* words[start:end]
PySlice(words, start, end) ==
    LET n == Len(words)
        lo == IF start < 0 THEN Max(start + n, 0) ELSE Min(start, n)
        hi == IF end < 0 THEN Max(end + n, 0) ELSE Min(end, n)
    IN  IF lo >= hi THEN <<>> ELSE SubSeq(words, lo + 1, hi)

ChunkLoopCalls ==
    {[op |-> "content_chunk_text", pc |-> "loop",
      words |-> split(GenText(n, <<SP>>)), chunk_size |-> cs, overlap |-> ov,
      start |-> 0, chunks |-> <<>>] :
        n \in 0..MaxLoopWords, cs \in 1..MaxLoopSetting, ov \in 0..MaxLoopSetting}

InitChunkLoop ==
    /\ call \in ChunkLoopCalls
    /\ ret = <<>>
    /\ EmbedIdle
    /\ DbIdle

\* one pass through the body of `while start < len(words)`
ChunkLoopBody ==
    /\ call.op = "content_chunk_text"
    /\ call.pc = "loop"
    /\ call.start < Len(call.words)
    /\ Len(call.chunks) < MaxChunks
    /\ call' = [call EXCEPT
            !.chunks = Append(call.chunks,
                              join(PySlice(call.words, call.start,
                                           call.start + call.chunk_size))),
            !.start = call.start + call.chunk_size - call.overlap]
    /\ UNCHANGED <<ret, embedVars, dbVars>>

\* the loop condition is false: return chunks
ChunkLoopReturn ==
    /\ call.op = "content_chunk_text"
    /\ call.pc = "loop"
    /\ ~(call.start < Len(call.words))
    /\ call' = [call EXCEPT !.pc = "returned"]
    /\ ret' = <<call.chunks>>
    /\ UNCHANGED <<embedVars, dbVars>>

NextChunkLoop == ChunkLoopBody \/ ChunkLoopReturn

SpecChunkLoop == InitChunkLoop /\ [][NextChunkLoop]_vars

\* C25: chunking terminates for every text, chunk_size and overlap, also
\* with overlap >= chunk_size: every iteration of the loop leaves the start
\* index strictly greater than it found it.
C25_StartIncreases ==
    [][(call.pc = "loop" /\ call'.pc = "loop") => call'.start > call.start]_vars

(***************************************************************************)
(* DatabaseManager of src/app/core/database.py: connect and                *)
(* get_collection called by tasks on one event loop, and disconnect.  The  *)
(* only suspension is the ping inside connect.  `call` holds the manager's *)
(* fields and the position of every task.                                  *)
(***************************************************************************)
Collections == {"scientific_studies", "articles", "chat_history"}

IdleCaller == [pc |-> "idle", method |-> "none", collection |-> "none"]

InitConnect ==
    /\ call = [op |-> "manager", client |-> FALSE, db |-> FALSE, collections |-> {},
               tasks |-> [t \in 1..MaxTasks |-> IdleCaller]]
    /\ ret = <<>>
    /\ EmbedIdle
    /\ DbIdle

\* the is_connected property
is_connected(m) == m.client /\ m.db

\* return self._collections[collection]
Lookup(collections, collection) ==
    IF collection \in collections THEN "returned_handle" ELSE "raised_KeyError"

\* connect() is called: it makes the client and awaits the ping, or finds a
\* client and returns at once
CallConnect(t) ==
    /\ call.op = "manager"
    /\ call.tasks[t].pc = "idle"
    /\ IF ~call.client
       THEN call' = [call EXCEPT !.client = TRUE,
                        !.tasks[t] = [pc |-> "ping", method |-> "connect",
                                      collection |-> "none"]]
       ELSE call' = [call EXCEPT
                        !.tasks[t] = [pc |-> "returned", method |-> "connect",
                                      collection |-> "none"]]
    /\ UNCHANGED <<ret, embedVars, dbVars>>

\* get_collection(collection) is called: up to the ping of its own connect,
\* or, when connect has nothing to await, through to the lookup
CallGetCollection(t, collection) ==
    /\ call.op = "manager"
    /\ call.tasks[t].pc = "idle"
    /\ IF ~is_connected(call) /\ ~call.client
       THEN call' = [call EXCEPT !.client = TRUE,
                        !.tasks[t] = [pc |-> "ping", method |-> "get_collection",
                                      collection |-> collection]]
       ELSE call' = [call EXCEPT
                        !.tasks[t] = [pc |-> Lookup(call.collections, collection),
                                      method |-> "get_collection",
                                      collection |-> collection]]
    /\ UNCHANGED <<ret, embedVars, dbVars>>

\* the ping answers: the database and the collections are set from
\* self._client, connect returns, and a get_collection goes on to its
\* lookup; or the ping fails, or self._client is None by now (a disconnect
\* ran meanwhile): the fields are reset and ConnectionError is raised
PingAnswers(t, ok) ==
    /\ call.op = "manager"
    /\ call.tasks[t].pc = "ping"
    /\ IF ok /\ call.client
       THEN call' = [call EXCEPT
                        !.db = TRUE,
                        !.collections = Collections,
                        !.tasks[t].pc =
                            IF call.tasks[t].method = "connect" THEN "returned"
                            ELSE Lookup(Collections, call.tasks[t].collection)]
       ELSE call' = [call EXCEPT
                        !.client = FALSE,
                        !.db = FALSE,
                        !.collections = {},
                        !.tasks[t].pc = "raised_ConnectionError"]
    /\ UNCHANGED <<ret, embedVars, dbVars>>

\* disconnect(): no suspension; with a client the three fields are reset,
\* without one nothing happens
Disconnect ==
    /\ call.op = "manager"
    /\ call' = IF call.client
               THEN [call EXCEPT !.client = FALSE, !.db = FALSE, !.collections = {}]
               ELSE call
    /\ UNCHANGED <<ret, embedVars, dbVars>>

\* the task is over; it may call again
CallerDone(t) ==
    /\ call.op = "manager"
    /\ call.tasks[t].pc \notin {"idle", "ping"}
    /\ call' = [call EXCEPT !.tasks[t] = IdleCaller]
    /\ UNCHANGED <<ret, embedVars, dbVars>>

NextConnect ==
    \/ \E t \in 1..MaxTasks : CallConnect(t)
    \/ \E t \in 1..MaxTasks, c \in Collections : CallGetCollection(t, c)
    \/ \E t \in 1..MaxTasks, ok \in BOOLEAN : PingAnswers(t, ok)
    \/ Disconnect
    \/ \E t \in 1..MaxTasks : CallerDone(t)

SpecConnect == InitConnect /\ [][NextConnect]_vars

\* C26: a get_collection that runs while another task's connect() is
\* suspended at the ping never fails on a missing collection: it returns a
\* handle of the initialised collections or raises ConnectionError.
C26_GetCollectionSafe ==
    /\ [](\A t \in 1..MaxTasks :
            call.tasks[t].method = "get_collection" =>
                call.tasks[t].pc \in {"ping", "returned_handle", "raised_ConnectionError"})
    /\ [][\A t \in 1..MaxTasks :
            (call.tasks[t].pc # "returned_handle" /\ call'.tasks[t].pc = "returned_handle") =>
                call'.tasks[t].collection \in call'.collections]_vars

(***************************************************************************)
(* process_claim with the ways it can raise, on claims that may have been  *)
(* processed before: the Claim object is updated in place, so what an      *)
(* earlier run wrote is what the next run starts from.  The collection     *)
(* starts with the fixture studies; studies can be updated and deleted.    *)
(***************************************************************************)
\* the number of times one claim object is handed to process_claim
MaxRuns == 2

\* find_relevant_studies: it raises, or it returns one of the possible lists
RetrievalOutcomes(docs, query_vector) ==
    {[ok |-> FALSE, studies |-> <<>>]} \cup
    {[ok |-> TRUE, studies |-> s] : s \in find_relevant_studies(docs, query_vector)}

\* verify_claim on n studies: the classifier raises, or answers n scores
ScoringOutcomes(n) ==
    {[ok |-> FALSE, scores |-> <<>>]} \cup
    {[ok |-> TRUE, scores |-> sc] : sc \in [1..n -> SupportScores]}

\* a process_claim that notes the related studies before it scores them
process_claim_try_ids_first(claim, retrieval, scoring, threshold, now) ==
    IF ~retrieval.ok THEN [raised |-> "find_relevant_studies", claim |-> claim]
    ELSE IF retrieval.studies # <<>> /\ ~scoring.ok
    THEN [raised |-> "verify_claim",
          claim |-> [claim EXCEPT !.related_scientific_study_ids =
                        [i \in 1..Len(retrieval.studies) |-> retrieval.studies[i].id]]]
    ELSE [raised |-> "none",
          claim |-> process_claim(claim, retrieval.studies, scoring.scores, threshold, now)]

\* the try block of process_claim: what is raised, and the claim object
\* afterwards
process_claim_try(claim, retrieval, scoring, threshold, now) ==
    IF ~retrieval.ok THEN [raised |-> "find_relevant_studies", claim |-> claim]
    ELSE IF retrieval.studies # <<>> /\ ~scoring.ok
    THEN [raised |-> "verify_claim", claim |-> claim]
    ELSE [raised |-> "none",
          claim |-> process_claim(claim, retrieval.studies, scoring.scores, threshold, now)]

InitReprocess ==
    /\ call = NoCall
    /\ ret = <<>>
    /\ EmbedIdle
    /\ studies = FixtureStudies
    /\ articles = <<>>
    /\ vector_search_enabled = FALSE

\* one run of process_claim on a claim object; raw is what the encoder
\* answers for the claim's text
RunProcessClaim(claim, raw, threshold, now) ==
    LET query_vector == base_generate_embedding(raw)
    IN  \E retrieval \in RetrievalOutcomes(studies, query_vector) :
        \E scoring \in IF retrieval.studies = <<>>
                       THEN {[ok |-> TRUE, scores |-> <<>>]}
                       ELSE ScoringOutcomes(Len(retrieval.studies)) :
            LET out == process_claim_try(claim, retrieval, scoring, threshold, now)
            IN  /\ ret' = <<out.claim>>
                /\ call' = [op |-> "process_claim", claim |-> claim, raw |-> raw,
                            run |-> IF call = NoCall THEN 1 ELSE call.run + 1,
                            relevant_studies |-> retrieval.studies,
                            scores |-> scoring.scores,
                            MIN_CLAIM_CONFIDENCE |-> threshold,
                            raised |-> out.raised]

\* process_claim on a claim that extract_claims has just made
ProcessFresh(claim, raw, threshold, now) ==
    /\ call = NoCall
    /\ RunProcessClaim(claim, raw, threshold, now)
    /\ UNCHANGED <<embedVars, dbVars>>

\* process_claim once more on the same object: same text, same encoding,
\* same settings
ProcessAgain(now) ==
    /\ call # NoCall
    /\ call.run < MaxRuns
    /\ RunProcessClaim(ret[1], call.raw, call.MIN_CLAIM_CONFIDENCE, now)
    /\ UNCHANGED <<embedVars, dbVars>>

\* BaseService.delete of a study
DeleteStudy(i) ==
    /\ i \in 1..Len(studies)
    /\ studies' = [k \in 1..(Len(studies) - 1) |->
                        IF k < i THEN studies[k] ELSE studies[k + 1]]
    /\ UNCHANGED <<call, ret, embedVars, articles, vector_search_enabled>>

\* items handed to update; model_dump(exclude_none=True) leaves out a
\* vector that is None
UpdateItems ==
    {[vector |-> Some([num |-> <<-5, 0>>, den |-> 5]), discipline |-> "physics"]}

\* BaseService.update: $set of the fields the item carries
update(coll, i, item) ==
    [coll EXCEPT ![i] = [id |-> coll[i].id,
                         vector |-> IF item.vector = None THEN coll[i].vector
                                    ELSE item.vector.val,
                         discipline |-> item.discipline]]

\* PUT /scientific-studies/{study_id}
UpdateStudy(i, item) ==
    /\ i \in 1..Len(studies)
    /\ studies' = update(studies, i, item)
    /\ UNCHANGED <<call, ret, embedVars, articles, vector_search_enabled>>

NextReprocess ==
    \/ \E claim \in FreshClaims, raw \in QueryOutputs,
          threshold \in ClaimConfidenceSettings, now \in 1..MaxNow :
            ProcessFresh(claim, raw, threshold, now)
    \/ \E now \in 1..MaxNow : ProcessAgain(now)
    \/ \E i \in 1..Len(FixtureStudies) : DeleteStudy(i)
    \/ \E i \in 1..Len(FixtureStudies), item \in UpdateItems : UpdateStudy(i, item)

SpecReprocess == InitReprocess /\ [][NextReprocess]_vars

\* C27: when retrieval or scoring raises inside process_claim, the exception
\* reaches the caller and every field of the claim is as it was before the
\* call; the claim is never left partially updated.
C27_RaiseLeavesClaim ==
    (call # NoCall /\ call.raised # "none") => ret[1] = call.claim

\* C27 witness: scoring raised on a claim whose retrieval found studies
\* other than those an earlier run had noted
C27_Witness ==
    /\ call # NoCall
    /\ call.raised = "verify_claim"
    /\ call.claim.verified_at.some
    /\ call.claim.related_scientific_study_ids #
            [i \in 1..Len(call.relevant_studies) |-> call.relevant_studies[i].id]
    /\ ret[1] = call.claim

\* C28: the fields after process_claim depend only on the claim text and the
\* current retrieval and scoring: a claim whose retrieval is now empty has
\* no related study ids and no verified_at, whatever an earlier run wrote.
C28_NoCarryOver ==
    (call # NoCall /\ call.raised = "none" /\ call.relevant_studies = <<>>) =>
        /\ ret[1].related_scientific_study_ids = <<>>
        /\ ret[1].verified_at = None

(***************************************************************************)
(* Migrations: run_migrations and BaseMigration.run against the            *)
(* DatabaseManager of src/app/core/database.py.  `call` holds the          *)
(* manager's fields, the position of a run_migrations call, and one        *)
(* migration object with what the migrations collection holds for it.      *)
(* Every access to the migrations collection goes through                  *)
(* database.get_collection('migrations'), a key the manager's table of     *)
(* handles does not have, so the steps of run_migrations after the set-up  *)
(* and the document loop of run() are reached by no call and have no       *)
(* action here.                                                            *)
(***************************************************************************)
MIGRATIONS == <<"UpdateArticleVectors", "UpdateStudyVectors">>

MigrationNames == {MIGRATIONS[i] : i \in 1..Len(MIGRATIONS)}

\* --migration: not given, one of the migrations, or another name
SpecificMigrations == {"none", "Other"} \cup MigrationNames

IdleRunner == [pc |-> "idle", specific_migration |-> "none", force |-> FALSE,
               raised |-> "none"]

\* BaseMigration.__init__: status 'pending'; written is the status the
\* migrations collection holds for the migration
NewMigration(name, written) ==
    [pc |-> "new", name |-> name, status |-> "pending", raised |-> "none",
     written |-> written]

InitMigrate ==
    /\ call = [op |-> "migrations", client |-> FALSE, db |-> FALSE, collections |-> {},
               runner |-> IdleRunner,
               migration |-> NewMigration(MIGRATIONS[1], "absent")]
    /\ ret = <<>>
    /\ EmbedIdle
    /\ DbIdle

\* connect() up to its await: it finds a client and returns at once, or it
\* makes the client and awaits the ping
connect(m) ==
    IF m.client
    THEN [client |-> m.client, db |-> m.db, collections |-> m.collections,
          awaits |-> FALSE]
    ELSE [client |-> TRUE, db |-> m.db, collections |-> m.collections,
          awaits |-> TRUE]

\* connect() from the ping's answer: the database and the handles are set
\* from the client the manager holds now; a failed ping, or a client that a
\* disconnect() took away meanwhile, ends in ConnectionError with the
\* fields reset
connect_resume(m, ping_ok) ==
    IF ping_ok /\ m.client
    THEN [client |-> TRUE, db |-> TRUE, collections |-> Collections, raised |-> "none"]
    ELSE [client |-> FALSE, db |-> FALSE, collections |-> {},
          raised |-> "ConnectionError"]

\* get_collection(collection) up to the ping of its connect(), or, when
\* there is nothing to await, through to the lookup
get_collection(m, collection) ==
    IF is_connected(m)
    THEN [client |-> m.client, db |-> m.db, collections |-> m.collections,
          result |-> Lookup(m.collections, collection)]
    ELSE LET c == connect(m)
         IN  [client |-> c.client, db |-> c.db, collections |-> c.collections,
              result |-> IF c.awaits THEN "awaits_ping"
                         ELSE Lookup(c.collections, collection)]

\* get_collection(collection) from the ping's answer
get_collection_resume(m, collection, ping_ok) ==
    LET c == connect_resume(m, ping_ok)
    IN  [client |-> c.client, db |-> c.db, collections |-> c.collections,
         result |-> IF c.raised # "none" THEN "raised_ConnectionError"
                    ELSE Lookup(c.collections, collection)]

\* what a get_collection that did not return a handle raises
RaisedBy(result) == IF result = "raised_KeyError" THEN "KeyError" ELSE "ConnectionError"

\* the manager's fields after a step of connect or get_collection
WithManager(c, g) ==
    [c EXCEPT !.client = g.client, !.db = g.db, !.collections = g.collections]

\* run_migrations(specific_migration, force) is called
RunMigrations(specific_migration, force) ==
    /\ call.op = "migrations"
    /\ call.runner.pc = "idle"
    /\ call' = [call EXCEPT !.runner = [pc |-> "connect",
                                        specific_migration |-> specific_migration,
                                        force |-> force, raised |-> "none"]]
    /\ UNCHANGED <<ret, embedVars, dbVars>>

\* await database.connect(), up to the ping or, with a client at hand,
\* through
RunnerConnect ==
    /\ call.op = "migrations"
    /\ call.runner.pc = "connect"
    /\ LET c == connect(call)
       IN  call' = [WithManager(call, c) EXCEPT
                       !.runner.pc = IF c.awaits THEN "connect_ping" ELSE "setup"]
    /\ UNCHANGED <<ret, embedVars, dbVars>>

\* the ping of database.connect() answers
RunnerConnectPing(ping_ok) ==
    /\ call.op = "migrations"
    /\ call.runner.pc = "connect_ping"
    /\ LET c == connect_resume(call, ping_ok)
       IN  call' = [WithManager(call, c) EXCEPT
                       !.runner.raised = c.raised,
                       !.runner.pc = IF c.raised = "none" THEN "setup" ELSE "disconnect"]
    /\ UNCHANGED <<ret, embedVars, dbVars>>

\* setup_migrations_collection() from the answer g of its get_collection:
\* what it raises is raised again
SetupAnswered(g) ==
    [WithManager(call, g) EXCEPT
        !.runner.raised = IF g.result = "returned_handle" THEN "none"
                          ELSE RaisedBy(g.result),
        !.runner.pc = IF g.result = "returned_handle" THEN "migrations"
                      ELSE "disconnect"]

\* await setup_migrations_collection(): the handle for 'migrations' is
\* asked for
SetupMigrationsCollection ==
    /\ call.op = "migrations"
    /\ call.runner.pc = "setup"
    /\ LET g == get_collection(call, "migrations")
       IN  call' = IF g.result = "awaits_ping"
                   THEN [WithManager(call, g) EXCEPT !.runner.pc = "setup_ping"]
                   ELSE SetupAnswered(g)
    /\ UNCHANGED <<ret, embedVars, dbVars>>

\* the ping under setup_migrations_collection() answers
SetupPing(ping_ok) ==
    /\ call.op = "migrations"
    /\ call.runner.pc = "setup_ping"
    /\ call' = SetupAnswered(get_collection_resume(call, "migrations", ping_ok))
    /\ UNCHANGED <<ret, embedVars, dbVars>>

\* finally: await database.disconnect()
RunnerDisconnect ==
    /\ call.op = "migrations"
    /\ call.runner.pc = "disconnect"
    /\ call' = [call EXCEPT
                   !.client = FALSE, !.db = FALSE, !.collections = {},
                   !.runner.pc = "done"]
    /\ UNCHANGED <<ret, embedVars, dbVars>>

\* the caller of run_migrations has its exception
RunnerDone ==
    /\ call.op = "migrations"
    /\ call.runner.pc = "done"
    /\ call' = [call EXCEPT !.runner = IdleRunner]
    /\ UNCHANGED <<ret, embedVars, dbVars>>

\* run(): status 'in_progress', then the first update_metadata
RunBegin ==
    /\ call.op = "migrations"
    /\ call.migration.pc = "new"
    /\ call' = [call EXCEPT !.migration.status = "in_progress",
                            !.migration.pc = "update_metadata"]
    /\ UNCHANGED <<ret, embedVars, dbVars>>

\* update_metadata() in the try block from the answer g of its
\* get_collection: the status is written, or the exception is caught and
\* the status becomes 'failed'
UpdateMetadataAnswered(g) ==
    [WithManager(call, g) EXCEPT
        !.migration.written =
            IF g.result = "returned_handle" THEN call.migration.status
            ELSE call.migration.written,
        !.migration.status =
            IF g.result = "returned_handle" THEN call.migration.status ELSE "failed",
        !.migration.pc =
            IF g.result = "returned_handle" THEN "documents" ELSE "finally"]

\* await self.update_metadata() in the try block
RunUpdateMetadata ==
    /\ call.op = "migrations"
    /\ call.migration.pc = "update_metadata"
    /\ LET g == get_collection(call, "migrations")
       IN  call' = IF g.result = "awaits_ping"
                   THEN [WithManager(call, g) EXCEPT
                            !.migration.pc = "update_metadata_ping"]
                   ELSE UpdateMetadataAnswered(g)
    /\ UNCHANGED <<ret, embedVars, dbVars>>

\* the ping under the first update_metadata() answers
RunUpdateMetadataPing(ping_ok) ==
    /\ call.op = "migrations"
    /\ call.migration.pc = "update_metadata_ping"
    /\ call' = UpdateMetadataAnswered(get_collection_resume(call, "migrations", ping_ok))
    /\ UNCHANGED <<ret, embedVars, dbVars>>

\* update_metadata() in the finally block from the answer g of its
\* get_collection: what it raises leaves run()
FinallyAnswered(g) ==
    [WithManager(call, g) EXCEPT
        !.migration.written =
            IF g.result = "returned_handle" THEN call.migration.status
            ELSE call.migration.written,
        !.migration.raised =
            IF g.result = "returned_handle" THEN "none" ELSE RaisedBy(g.result),
        !.migration.pc =
            IF g.result = "returned_handle" THEN "returned" ELSE "raised"]

\* finally: await self.update_metadata()
RunFinally ==
    /\ call.op = "migrations"
    /\ call.migration.pc = "finally"
    /\ LET g == get_collection(call, "migrations")
       IN  call' = IF g.result = "awaits_ping"
                   THEN [WithManager(call, g) EXCEPT !.migration.pc = "finally_ping"]
                   ELSE FinallyAnswered(g)
    /\ UNCHANGED <<ret, embedVars, dbVars>>

\* the ping under the update_metadata() of the finally block answers
RunFinallyPing(ping_ok) ==
    /\ call.op = "migrations"
    /\ call.migration.pc = "finally_ping"
    /\ call' = FinallyAnswered(get_collection_resume(call, "migrations", ping_ok))
    /\ UNCHANGED <<ret, embedVars, dbVars>>

\* run() is over; the next migration object is made
NextMigrationObject(name) ==
    /\ call.op = "migrations"
    /\ call.migration.pc \in {"returned", "raised"}
    /\ call' = [call EXCEPT !.migration = NewMigration(name, "absent")]
    /\ UNCHANGED <<ret, embedVars, dbVars>>

NextMigrate ==
    \/ \E sm \in SpecificMigrations, force \in BOOLEAN : RunMigrations(sm, force)
    \/ RunnerConnect
    \/ \E ok \in BOOLEAN : RunnerConnectPing(ok)
    \/ SetupMigrationsCollection
    \/ \E ok \in BOOLEAN : SetupPing(ok)
    \/ RunnerDisconnect
    \/ RunnerDone
    \/ RunBegin
    \/ RunUpdateMetadata
    \/ \E ok \in BOOLEAN : RunUpdateMetadataPing(ok)
    \/ RunFinally
    \/ \E ok \in BOOLEAN : RunFinallyPing(ok)
    \/ \E name \in MigrationNames : NextMigrationObject(name)

SpecMigrate == InitMigrate /\ [][NextMigrate]_vars

\* C29: the status of a migration moves only pending -> in_progress ->
\* completed or failed, and when run() has ended the migrations collection
\* holds the final status of the migration.
C29_FinalStatusWritten ==
    /\ call.migration.pc = "new" => call.migration.status = "pending"
    /\ call.migration.pc \in {"update_metadata", "update_metadata_ping"} =>
            call.migration.status = "in_progress"
    /\ call.migration.pc \in {"finally", "finally_ping", "returned", "raised"} =>
            call.migration.status \in {"completed", "failed"}
    /\ call.migration.pc \in {"returned", "raised"} =>
            call.migration.written = call.migration.status

(***************************************************************************)
(* ChatService.analyze_article on a stored article, as a coroutine that    *)
(* other requests interleave with at its awaits: add_claim, verify_claim,  *)
(* update and delete of the article, delete of a study.  `call` holds the  *)
(* stored article and the analysis in flight: its position, its copy of    *)
(* the article, and the texts it handed to process_claim; `ret` holds the  *)
(* claims of its response.                                                 *)
(***************************************************************************)
MaxStoredClaims == 1

\* texts of stored articles: two sentences with an indicator, one, none
AnalyzeTexts == {ClaimText, join_on(<<FragShows, FragPlain>>, DOT), FragPlain}

\* Claim(text=...): the defaults of the Claim model
ClaimDefaults(text) ==
    [text |-> text,
     related_scientific_study_ids |-> <<>>,
     confidence_score |-> None,
     verified |-> FALSE,
     verification_notes |-> None,
     verified_at |-> None]

\* what retrieval and scoring can answer for one claim on the studies
\* stored now
ClaimRuns ==
    UNION {{[retrieval |-> r, scoring |-> s] :
                s \in IF r.studies = <<>> THEN {[ok |-> TRUE, scores |-> <<>>]}
                      ELSE ScoringOutcomes(Len(r.studies))} :
           r \in UNION {RetrievalOutcomes(studies, base_generate_embedding(raw)) :
                            raw \in QueryOutputs}}

\* the "claims" list of the response
ReportClaims(claims) ==
    [i \in 1..Len(claims) |->
        [text |-> claims[i].text,
         verified |-> claims[i].verified,
         confidence_score |-> claims[i].confidence_score,
         verification_notes |-> claims[i].verification_notes]]

\* the claims field of a stored article: absent, an array, or an embedded
\* document with indexes as its keys
NoClaims == [kind |-> "absent", items |-> <<>>, fields |-> {}]
ClaimsArray(items) == [kind |-> "array", items |-> items, fields |-> {}]
ClaimsDocument(fields) == [kind |-> "document", items |-> <<>>, fields |-> fields]

NoArticle == [exists |-> FALSE, text |-> <<>>, claims |-> NoClaims]

\* the Article object a call holds: none yet
NoLocal == [exists |-> FALSE, text |-> <<>>, claims |-> <<>>]

\* the article is stored by POST /articles: the request body has a text and
\* no claims field
InitAnalyze ==
    /\ \E text \in AnalyzeTexts :
          call = [op |-> "chat",
                  article |-> [exists |-> TRUE, text |-> text, claims |-> NoClaims],
                  pc |-> "idle", local |-> NoLocal, next |-> 0,
                  raised |-> "none", processed |-> <<>>]
    /\ ret = <<>>
    /\ EmbedIdle
    /\ studies = FixtureStudies
    /\ articles = <<>>
    /\ vector_search_enabled = FALSE

\* $push of a claim: an absent field becomes an array of the claim, an
\* array gets it appended, and on a field that is no array the server
\* rejects the write
push_claim(claims, claim) ==
    IF claims.kind = "absent" THEN ClaimsArray(<<claim>>)
    ELSE IF claims.kind = "array" THEN ClaimsArray(Append(claims.items, claim))
    ELSE claims

\* POST /articles/{id}/claims: the claim is pushed onto the stored article
AddClaim(claim) ==
    /\ call.op = "chat"
    /\ call.pc # "analyzed"
    /\ call.article.exists
    /\ Len(call.article.claims.items) < MaxStoredClaims
    /\ call' = [call EXCEPT !.article.claims = push_claim(@, claim)]
    /\ UNCHANGED <<ret, embedVars, dbVars>>

\* an array element the server pads with: null
Null == [null |-> TRUE]

\* the fields that verify_claim sets, as an embedded document of their own
VerifiedFields(verification_notes, confidence_score, verified, now) ==
    [verified |-> verified,
     verification_notes |-> Some(verification_notes),
     confidence_score |-> Some(confidence_score),
     verified_at |-> Some(now)]

\* $set of "claims.<index>.<field>" for the four fields.  Without a claims
\* field, or with an embedded document there, the index is a key: the
\* document claims.<index> is created or its four fields are set.  In an
\* array the fields of the element are set; past the end of the array the
\* array is padded with null and a document of the four fields alone is
\* created; on a null element the server rejects the write.
set_claim_fields(claims, claim_index, verification_notes, confidence_score, verified, now) ==
    LET new == VerifiedFields(verification_notes, confidence_score, verified, now)
        items == claims.items
    IN  IF claims.kind # "array"
        THEN ClaimsDocument({e \in claims.fields : e.index # claim_index}
                            \cup {[index |-> claim_index, value |-> new]})
        ELSE IF claim_index <= Len(items)
        THEN IF items[claim_index] = Null
             THEN claims
             ELSE ClaimsArray([items EXCEPT ![claim_index] =
                        [@ EXCEPT !.verified = verified,
                                  !.verification_notes = Some(verification_notes),
                                  !.confidence_score = Some(confidence_score),
                                  !.verified_at = Some(now)]])
        ELSE ClaimsArray([k \in 1..claim_index |->
                            IF k <= Len(items) THEN items[k]
                            ELSE IF k < claim_index THEN Null
                            ELSE new])

\* Article(**document): claims defaults to the empty list; given, it has to
\* be a list whose every element is a document with a text
ValidArticle(article) ==
    \/ article.claims.kind = "absent"
    \/ /\ article.claims.kind = "array"
       /\ \A k \in 1..Len(article.claims.items) :
             "text" \in DOMAIN article.claims.items[k]

\* PUT /articles/{id}/claims/{claim_index}/verify, claim_index counted here
\* from 1
VerifyStoredClaim(claim_index, verification_notes, confidence_score, verified, now) ==
    /\ call.op = "chat"
    /\ call.pc # "analyzed"
    /\ call.article.exists
    /\ call' = [call EXCEPT !.article.claims =
                    set_claim_fields(@, claim_index, verification_notes,
                                     confidence_score, verified, now)]
    /\ UNCHANGED <<ret, embedVars, dbVars>>

\* PUT /articles/{id}: BaseService.update hands update_one the model_dump
\* of the Article sent, its source_url an HttpUrl, which cannot be encoded:
\* the call raises InvalidDocument (HTTP 500) and the stored article stays
\* as it is
UpdateArticle ==
    /\ call.op = "chat"
    /\ call.pc # "analyzed"
    /\ call.article.exists
    /\ UNCHANGED vars

\* DELETE /articles/{id}
DeleteArticle ==
    /\ call.op = "chat"
    /\ call.pc # "analyzed"
    /\ call.article.exists
    /\ call' = [call EXCEPT !.article = NoArticle]
    /\ UNCHANGED <<ret, embedVars, dbVars>>

\* a study is deleted while no response is held
DeleteStudyMeanwhile(i) ==
    /\ call.op = "chat"
    /\ call.pc # "analyzed"
    /\ DeleteStudy(i)

\* analyze_article(article_id, question) up to the answer of get_by_id: the
\* article as it is stored now, ValueError("Article not found"), or the
\* ValidationError of a stored document that is no Article
AnalyzeArticle ==
    /\ call.op = "chat"
    /\ call.pc = "idle"
    /\ IF ~call.article.exists
       THEN call' = [call EXCEPT !.pc = "analyzed", !.raised = "ValueError"]
       ELSE IF ~ValidArticle(call.article)
       THEN call' = [call EXCEPT !.pc = "analyzed", !.raised = "ValidationError"]
       ELSE call' = [call EXCEPT !.pc = "related",
                                 !.local = [exists |-> TRUE, text |-> call.article.text,
                                            claims |-> call.article.claims.items]]
    /\ ret' = <<>>
    /\ UNCHANGED <<embedVars, dbVars>>

\* get_related_scientific_studies answers; claims are extracted when the
\* copy of the article has none; without a claim to process the response is
\* built
AnalyzeRelated ==
    /\ call.op = "chat"
    /\ call.pc = "related"
    /\ IF call.local.claims # <<>>
       THEN /\ call' = [call EXCEPT !.pc = "analyzed"]
            /\ ret' = ReportClaims(call.local.claims)
       ELSE LET cs == extract_claims(call.local.text)
            IN  IF cs = <<>>
                THEN /\ call' = [call EXCEPT !.pc = "analyzed"]
                     /\ ret' = <<>>
                ELSE /\ call' = [call EXCEPT !.pc = "process", !.local.claims = cs,
                                             !.next = 1]
                     /\ ret' = <<>>
    /\ UNCHANGED <<embedVars, dbVars>>

\* process_claim of the next claim answers, from the studies stored now;
\* what it raises leaves analyze_article; after the last claim the response
\* is built
AnalyzeProcessClaim(threshold, now) ==
    /\ call.op = "chat"
    /\ call.pc = "process"
    /\ \E run \in ClaimRuns :
          LET i == call.next
              out == process_claim_try(call.local.claims[i], run.retrieval,
                                       run.scoring, threshold, now)
              claims == [call.local.claims EXCEPT ![i] = out.claim]
              processed == Append(call.processed, call.local.claims[i].text)
          IN  IF out.raised # "none"
              THEN /\ call' = [call EXCEPT !.pc = "analyzed", !.raised = out.raised,
                                           !.processed = processed]
                   /\ ret' = <<>>
              ELSE IF i = Len(claims)
              THEN /\ call' = [call EXCEPT !.pc = "analyzed", !.local.claims = claims,
                                           !.processed = processed]
                   /\ ret' = ReportClaims(claims)
              ELSE /\ call' = [call EXCEPT !.local.claims = claims, !.next = i + 1,
                                           !.processed = processed]
                   /\ ret' = <<>>
    /\ UNCHANGED <<embedVars, dbVars>>

\* the caller has the response or the exception
AnalyzeDone ==
    /\ call.op = "chat"
    /\ call.pc = "analyzed"
    /\ call' = [call EXCEPT !.pc = "idle", !.local = NoLocal, !.next = 0,
                            !.raised = "none", !.processed = <<>>]
    /\ ret' = <<>>
    /\ UNCHANGED <<embedVars, dbVars>>

NextAnalyze ==
    \/ \E text \in {FragShows, FragPlain} : AddClaim(ClaimDefaults(text))
    \/ \E i \in 1..(MaxStoredClaims + 2), now \in 1..MaxNow :
            VerifyStoredClaim(i, <<"checked by hand">>, Rat(9, 10), TRUE, now)
    \/ UpdateArticle
    \/ DeleteArticle
    \/ \E i \in 1..Len(FixtureStudies) : DeleteStudyMeanwhile(i)
    \/ AnalyzeArticle
    \/ AnalyzeRelated
    \/ \E threshold \in ClaimConfidenceSettings, now \in 1..MaxNow :
            AnalyzeProcessClaim(threshold, now)
    \/ AnalyzeDone

SpecAnalyze == InitAnalyze /\ [][NextAnalyze]_vars

\* C30: every claim in the response of analyze_article went through
\* process_claim exactly once, in the order of the response, and is in a
\* terminal state: it has its notes and its confidence score.  Claims stored
\* on the article are not reported unprocessed.
C30_ReportedClaimsProcessed ==
    (call.pc = "analyzed" /\ call.raised = "none") =>
        /\ Len(call.processed) = Len(ret)
        /\ \A i \in 1..Len(ret) :
              /\ call.processed[i] = ret[i].text
              /\ ret[i].verification_notes.some
              /\ ret[i].confidence_score.some

====
